---- MODULE Spec2Model ----
(***************************************************************************)
(* Model of the documentation crawler of xafari-mcp.                       *)
(*                                                                         *)
(* Crawl engine: runCrawl of src/src/crawl.js (lines 212-449).  One loop   *)
(* iteration of the while loop (lines 268-414) is one step of the model;   *)
(* the step is split by the way the iteration ends (skip, reuse, fresh     *)
(* page, asset, ...).  The server's replies, the hrefs found in a page and *)
(* the result of reading a cached record from disk are inputs of the step. *)
(*                                                                         *)
(* Page records: serializePageMarkdown and parseMarkdownPage of            *)
(* src/src/storage.js over one record file (RecordSpec), and               *)
(* savePageMarkdown over the directories and files under the pages root    *)
(* (StoreSpec).  Index and search: tokenize and buildIndex of crawl.js     *)
(* 656-735 and searchIndex of src/src/search.js (IndexSpec).  Each         *)
(* specification keeps the variables of the others at rest.                *)
(***************************************************************************)
EXTENDS Integers, Naturals, Sequences, FiniteSets, TLC

\* ------------------------------------------------------------------ bounds
\* number of in-scope URLs of the site; URL 1 is the root
NumUrls == 2
\* most hrefs found in one page (served or cached)
MaxLinks == 2
\* largest finite budget tried (0 stands for "no budget")
MaxBudget == 1

Urls == 1..NumUrls
RootUrl == 1

\* ------------------------------------------------------------------ inputs
\* what fetchResource can come back with (crawl.js 118-170): fresh HTML,
\* a binary asset, 304, or a thrown error (network, timeout, non-2xx,
\* unsupported content type)
Replies == {"html", "asset", "notModified", "fail"}

\* shapes of href strings as the link loop of runCrawl tells them apart
\* (crawl.js 381-405); "page" and "withFragment" resolve to an in-scope URL
PageHrefKinds == {"page", "withFragment"}
OtherHrefKinds ==
  {"fragment", "mailto", "javascript", "offhost", "offpath", "binary", "invalid"}
Hrefs ==
  [kind : PageHrefKinds, target : Urls] \cup [kind : OtherHrefKinds, target : {RootUrl}]

LinkLists == UNION {[1..n -> Hrefs] : n \in 0..MaxLinks}
NonEmptyLinkLists == LinkLists \ {<<>>}

\* existingByUrl.get(current) (crawl.js 281): undefined, or the metadata of
\* a cached page, with or without validators (etag / lastModified) and with
\* or without recorded links.  The entry of a URL is read once, when the
\* URL is processed, and is an input of that iteration.
NoEntry == [cached |-> FALSE, validators |-> FALSE, hasLinks |-> FALSE]
CachedEntries == [cached : {TRUE}, validators : BOOLEAN, hasLinks : BOOLEAN]

VARIABLES
  forceFetch,      \* options.forceFetch
  onlyNew,         \* options.onlyNew
  useMemoryPages,  \* Boolean(savePagesImpl) || collectPages
  sessionLimit,    \* maxPagesPerSessionOverride, 0 = unlimited
  totalLimit,      \* maxPagesOverride, 0 = unlimited
  existingUrls,    \* the keys of the Map existingByUrl
  queue,           \* the frontier
  visited,         \* Set of visited URLs
  pagesLen,        \* pages.length
  pageId,          \* next page ordinal of the streamed index
  reusedCount,
  fetchedCount,
  pc,              \* "loop", "done" (runCrawl resolved), "rejected"
  disk,            \* URLs that have a page record under the pages root
  summaryUrls,     \* URLs that have a record in pages.json
  indexUrls,       \* URLs whose terms are in index.json
  indexPageCount,  \* index.pageCount of index.json
  runPages,        \* URLs whose page was produced by this run
  discovered,      \* root plus every URL admitted by the link loop
  skippedCount,    \* number of "crawl.skip" log records
  allHtml,         \* every reply so far was fresh HTML
  last             \* the iteration just finished: URL, calls made, outcome

\* one page record on disk, saved, loaded and reused
VARIABLES
  saved,           \* <<page>>: the page given to the latest save
  stored,          \* <<content>>: the record in the page's file
  previous,        \* <<content>>: the record the latest reuse started from
  loaded,          \* <<page>>: what the latest load returned
  clock            \* timestamps handed out so far

\* the pages root and the saves that write into it
VARIABLES
  rootLen,         \* path.join(dataDir, "pages").length
  pagesDir,        \* the directories and files under the pages root
  writing,         \* <<save>>: a save that opened its file and has not written
  written,         \* <<save>>: the latest save that completed
  observed,        \* <<content>>: what the latest reader of a file got
  saves            \* saves started so far

\* the search index of a process and the latest search
VARIABLES
  corpus,          \* the page list given to the latest buildIndex
  index,           \* the index it returned
  objectOwn,       \* own numeric properties of the global Object function
  result           \* <<result>>: what the latest searchIndex returned

\* one page being extracted from its HTML
VARIABLES
  document,        \* the elements of the HTML, in order
  allowedLanguages,\* <<set>>: the allow-list given to the crawl, <<>> without one
  extracted        \* <<page>>: the title and code blocks taken from it

\* the server process: its data files, its caches and its latest tool call
VARIABLES
  dataFiles,       \* pages.json and index.json: their state and what they list
  diskPages,       \* the pages in the markdown store
  caches,          \* pagesCache, indexCache, pageBySlug, pageByUrl
  fetchCalls,      \* fetchAndCachePage calls so far
  response            \* <<outcome>> of the latest tool call

\* the stdio transport of the server
VARIABLES
  sent,                  \* the JSON bodies the client framed, in order
  stdin,                 \* the characters not yet delivered as a chunk
  buffer,                \* `let buffer = ""`
  pendingContentLength,  \* <<n>> after a header, <<>> for null
  parsed                 \* what was given to JSON.parse so far

\* the link loop of one crawl iteration, on the hrefs as written
VARIABLES
  currentUrl,      \* <<the URL being processed>>
  hrefs,           \* the links of its page
  visitedBefore,   \* `visited` when the loop starts
  frontier         \* <<the URLs the loop pushed>>, <<>> before the loop

\* the JSON-RPC transports: the SSE sessions of the HTTP server and stdout
VARIABLES
  sessions,        \* `const sessions = new Map()`: 0 for no entry, else the stream
  streamCount,     \* the SSE streams opened so far
  posts,           \* the POSTs to /messages, in order of arrival
  sseEvents,       \* the events written to the SSE streams so far
  dispatched       \* the messages handleMessage got from stdin, with what it wrote

crawlVars ==
  <<forceFetch, onlyNew, useMemoryPages, sessionLimit, totalLimit, existingUrls,
    queue, visited, pagesLen, pageId, reusedCount, fetchedCount, pc,
    disk, summaryUrls, indexUrls, indexPageCount,
    runPages, discovered, skippedCount, allHtml, last>>

recordVars == <<saved, stored, previous, loaded, clock>>

storeVars == <<rootLen, pagesDir, writing, written, observed, saves>>

\* what the crawl loop of this model leaves alone
indexVars == <<corpus, index, objectOwn, result>>

htmlVars == <<document, allowedLanguages, extracted>>

serverVars == <<dataFiles, diskPages, caches, fetchCalls, response>>

stdioVars == <<sent, stdin, buffer, pendingContentLength, parsed>>

linkVars == <<currentUrl, hrefs, visitedBefore, frontier>>

rpcVars == <<sessions, streamCount, posts, sseEvents, dispatched>>

toolVars == <<htmlVars, serverVars, stdioVars, linkVars, rpcVars>>

coreVars == <<crawlVars, recordVars, storeVars, indexVars>>

nonCrawl == <<recordVars, storeVars, indexVars, toolVars>>

vars == <<crawlVars, nonCrawl>>

config == <<forceFetch, onlyNew, useMemoryPages, sessionLimit, totalLimit, existingUrls>>

NoIteration == [url |-> RootUrl, entry |-> NoEntry, calls |-> <<>>, outcome |-> "none"]

\* the values existingByUrl.get(u) can have
ExistingEntries(u) == IF u \in existingUrls THEN CachedEntries ELSE {NoEntry}


\* ===================================================== page records on disk
\* Strings are sequences of one-character strings.  "a" stands for any
\* letter that no rule looks at.
\* most characters in a generated title
MaxLen == 2

Quote == "\""
Backslash == "\\"
Chars == {"a", " ", Quote, Backslash, ":", "#", "-"}
Strings == UNION {[1..n -> Chars] : n \in 0..MaxLen}

\* the literal words null and []
NullWord == <<"n", "u", "l", "l">>
EmptyArrayWord == <<"[", "]">>

\* JavaScript values a metadata field can hold: a string, null, an array
Str(s) == [kind |-> "str", val |-> s]
Null == [kind |-> "null", val |-> <<>>]
EmptyArray == [kind |-> "arr", val |-> <<>>]

\* JavaScript truthiness of such a value (arrays are truthy, "" is not)
Truthy(v) == v.kind = "arr" \/ (v.kind = "str" /\ v.val # <<>>)

\* String.prototype.trimStart / trimEnd / trim
RECURSIVE TrimStart(_)
TrimStart(s) ==
  IF s # <<>> /\ Head(s) \in {" ", "\n"} THEN TrimStart(Tail(s)) ELSE s

RECURSIVE TrimEnd(_)
TrimEnd(s) ==
  IF s # <<>> /\ s[Len(s)] \in {" ", "\n"}
    THEN TrimEnd(SubSeq(s, 1, Len(s) - 1))
    ELSE s

Trim(s) == TrimEnd(TrimStart(s))

\* the escapes JSON.stringify applies between the quotes
RECURSIVE JsonEscaped(_)
JsonEscaped(s) ==
  IF s = <<>> THEN <<>>
  ELSE (IF Head(s) \in {Quote, Backslash} THEN <<Backslash, Head(s)>> ELSE <<Head(s)>>)
       \o JsonEscaped(Tail(s))

JsonStringify(s) == <<Quote>> \o JsonEscaped(s) \o <<Quote>>

\* /[:#\-\n]/.test(str) (storage.js 341)
NeedsQuoting(s) == s = <<>> \/ \E i \in 1..Len(s) : s[i] \in {":", "#", "-", "\n"}

\* yamlEscape (storage.js 336-345)
yamlEscape(v) ==
  IF v.kind = "null" THEN NullWord
  ELSE IF NeedsQuoting(v.val) THEN JsonStringify(v.val)
  ELSE v.val

\* value.replace(/^"|"$/g, "") (storage.js 430, 448)
StripQuotes(s) ==
  LET t == IF s # <<>> /\ Head(s) = Quote THEN Tail(s) ELSE s
  IN IF t # <<>> /\ t[Len(t)] = Quote THEN SubSeq(t, 1, Len(t) - 1) ELSE t

\* serializeYaml (storage.js 347-364): the lines written for one key
YamlScalar(raw) == [kind |-> "scalar", raw |-> raw, items |-> <<>>]
YamlList(items) == [kind |-> "list", raw |-> <<>>, items |-> items]

serializeYaml(v) ==
  IF v.kind = "arr" THEN YamlList(<<>>) ELSE YamlScalar(yamlEscape(v))

serializeYamlList(list) ==
  YamlList([i \in 1..Len(list) |-> yamlEscape(Str(list[i]))])

\* parseYamlFrontMatter (storage.js 417-453) on the lines of one key.
\* "key: value": the regular expression drops the white space after the
\* colon; an empty value opens a list, the words null and [] are taken as
\* null and an empty array, anything else loses one quote at each end.
ParseScalar(raw) ==
  LET value == TrimStart(raw) IN
  IF value = <<>> THEN EmptyArray
  ELSE IF value = NullWord THEN Null
  ELSE IF value = EmptyArrayWord THEN EmptyArray
  ELSE Str(StripQuotes(value))

\* "  - item" lines (storage.js 425-431); the line "  []" matches nothing
ParseItems(items) == [i \in 1..Len(items) |-> StripQuotes(TrimStart(items[i]))]

\* a scalar key as metadata[key]
ParseKey(entry) == IF entry.kind = "list" THEN EmptyArray ELSE ParseScalar(entry.raw)

\* a list key as the array metadata[key]; a scalar there is no array
ParseListKey(entry) == IF entry.kind = "list" THEN ParseItems(entry.items) ELSE <<>>

\* ---------------------------------------------------------------- body text
\* a markdown link "[a](u)" is one symbol of a text; its target:
MarkdownLink == "[a](u)"
LinkTarget == <<"a", ":", "a">>

\* [ \t]+\n -> \n (storage.js 324); also what trimEnd does to every line
RECURSIVE StripSpacesBeforeNewline(_)
StripSpacesBeforeNewline(s) ==
  IF s = <<>> THEN <<>>
  ELSE LET rest == StripSpacesBeforeNewline(Tail(s)) IN
       IF Head(s) = " " /\ rest # <<>> /\ Head(rest) = "\n"
         THEN rest
         ELSE <<Head(s)>> \o rest

\* \n{3,} -> \n\n (storage.js 325)
RECURSIVE CollapseNewlines(_)
CollapseNewlines(s) ==
  IF s = <<>> THEN <<>>
  ELSE LET rest == CollapseNewlines(Tail(s)) IN
       IF Head(s) = "\n" /\ Len(rest) >= 2 /\ rest[1] = "\n" /\ rest[2] = "\n"
         THEN rest
         ELSE <<Head(s)>> \o rest

\* cleanMarkdown (storage.js 318-334)
cleanMarkdown(text) ==
  IF text = <<>> THEN <<>>
  ELSE StripSpacesBeforeNewline(Trim(CollapseNewlines(StripSpacesBeforeNewline(text))))
       \o <<"\n">>

\* text.split("\n")
RECURSIVE SplitLines(_)
SplitLines(s) ==
  IF \A i \in 1..Len(s) : s[i] # "\n" THEN <<s>>
  ELSE LET k == CHOOSE i \in 1..Len(s) : s[i] = "\n" /\ \A j \in 1..(i - 1) : s[j] # "\n"
       IN <<SubSeq(s, 1, k - 1)>> \o SplitLines(SubSeq(s, k + 1, Len(s)))

\* number of "#" a line starts with
RECURSIVE LeadingHashes(_)
LeadingHashes(line) ==
  IF line # <<>> /\ Head(line) = "#" THEN 1 + LeadingHashes(Tail(line)) ELSE 0

\* /^(#{1,6})\s+(.*)$/ (storage.js 398)
IsHeading(line) ==
  LET k == LeadingHashes(line) IN k \in 1..6 /\ Len(line) > k /\ line[k + 1] = " "

HeadingText(line) == Trim(SubSeq(line, LeadingHashes(line) + 1, Len(line)))

\* extractMarkdownHeadings (storage.js 394-404), the texts only
extractMarkdownHeadings(text) ==
  LET lines == SplitLines(text) IN
  SelectSeq([i \in 1..Len(lines) |->
               IF IsHeading(lines[i]) THEN <<"h", HeadingText(lines[i])>> ELSE <<"n", <<>>>>],
            LAMBDA e : e[1] = "h")

\* extractMarkdownLinks (storage.js 406-415)
extractMarkdownLinks(text) ==
  LET found == SelectSeq(text, LAMBDA c : c = MarkdownLink)
  IN [i \in 1..Len(found) |-> LinkTarget]

\* -------------------------------------------------------------- file paths
\* A path under the pages root is a directory (a sequence of segments) and
\* the base name of a file, which carries the extension ".md".
MAX_MARKDOWN_FILENAME_PREFIX_BYTES == 240
MAX_MARKDOWN_PATH_CHARS == 240

\* "W" stands for a letter of two UTF-8 bytes (a Cyrillic letter)
WideChar == "W"
IndexName == <<"i", "n", "d", "e", "x">>
Repeat(c, n) == [i \in 1..n |-> c]

\* Buffer.byteLength(value, "utf8")
ByteLength(s) == Len(s) + Cardinality({i \in 1..Len(s) : s[i] = WideChar})

\* hashString (storage.js 53-55): ten hex digits
hashString(value) == Repeat("f", 10)

\* the characters replaced by "_" (storage.js 61, 71)
ForbiddenChars == {"<", ">", ":", Quote, "/", Backslash, "|", "?", "*"}
ReplaceForbidden(s) == [i \in 1..Len(s) |-> IF s[i] \in ForbiddenChars THEN "_" ELSE s[i]]

\* sanitizePathSegment (storage.js 60-67), maxLength = 80
sanitizePathSegment(value) ==
  LET cleaned == Trim(ReplaceForbidden(value)) IN
  IF Len(cleaned) <= 80 THEN cleaned
  ELSE SubSeq(cleaned, 1, 80 - 10 - 1) \o <<"-">> \o hashString(cleaned)

\* sanitizeFileName (storage.js 69-73)
sanitizeFileName(value) == Trim(ReplaceForbidden(value))

\* String.prototype.toLowerCase on the letters of the model
ToLowerCase(s) ==
  [i \in 1..Len(s) |->
     CASE s[i] = "A" -> "a" [] s[i] = "D" -> "d" [] s[i] = "O" -> "o"
       [] s[i] = "C" -> "c" [] s[i] = "B" -> "b" [] s[i] = "I" -> "i"
       [] s[i] = "L" -> "l" [] s[i] = "M" -> "m" [] s[i] = "P" -> "p"
       [] s[i] = "T" -> "t" [] s[i] = "Z" -> "z" [] OTHER -> s[i]]

\* toSlugSegment (storage.js 104-109)
toSlugSegment(value) ==
  LET rest == IF Len(value) >= 4 /\ ToLowerCase(SubSeq(value, 1, 4)) = <<"d", "o", "c", "_">>
                THEN SubSeq(value, 5, Len(value))
                ELSE value
  IN ToLowerCase([i \in 1..Len(rest) |-> IF rest[i] = "_" THEN "-" ELSE rest[i]])

\* truncateUtf8Bytes (storage.js 75-88): the longest prefix within maxBytes
truncateUtf8Bytes(value, maxBytes) ==
  LET fits == {k \in 0..Len(value) : ByteLength(SubSeq(value, 1, k)) <= maxBytes}
  IN SubSeq(value, 1, CHOOSE k \in fits : \A j \in fits : j <= k)

OrIndex(s) == IF s = <<>> THEN IndexName ELSE s

\* makeHashedMarkdownFilename (storage.js 90-98), without the ".md"
makeHashedMarkdownFilename(prefix, hash) ==
  LET rawPrefix == OrIndex(sanitizeFileName(prefix))
      safePrefix == IF ByteLength(rawPrefix) > MAX_MARKDOWN_FILENAME_PREFIX_BYTES
                      THEN truncateUtf8Bytes(rawPrefix, MAX_MARKDOWN_FILENAME_PREFIX_BYTES)
                      ELSE rawPrefix
      finalPrefix == OrIndex(sanitizeFileName(safePrefix))
  IN finalPrefix \o <<"-">> \o hash

\* value.split("/").filter(Boolean)
RECURSIVE SplitPath(_)
SplitPath(s) ==
  IF \A i \in 1..Len(s) : s[i] # "/" THEN (IF s = <<>> THEN <<>> ELSE <<s>>)
  ELSE LET k == CHOOSE i \in 1..Len(s) : s[i] = "/" /\ \A j \in 1..(i - 1) : s[j] # "/"
       IN (IF k = 1 THEN <<>> ELSE <<SubSeq(s, 1, k - 1)>>)
          \o SplitPath(SubSeq(s, k + 1, Len(s)))

\* parts.join("/")
RECURSIVE JoinPath(_)
JoinPath(parts) ==
  IF parts = <<>> THEN <<>>
  ELSE IF Len(parts) = 1 THEN parts[1]
  ELSE parts[1] \o <<"/">> \o JoinPath(Tail(parts))

\* slug.replace(/^\/+/, "")
RECURSIVE StripLeadingSlashes(_)
StripLeadingSlashes(s) ==
  IF s # <<>> /\ Head(s) = "/" THEN StripLeadingSlashes(Tail(s)) ELSE s

NonEmptySegments(parts) == SelectSeq(parts, LAMBDA part : part # <<>>)

FilePath(dir, base) == [dir |-> dir, base |-> base]

\* filePath.length of pagesRoot/dir.../base.md
RECURSIVE SegmentsLength(_)
SegmentsLength(dir) ==
  IF dir = <<>> THEN 0 ELSE 1 + Len(Head(dir)) + SegmentsLength(Tail(dir))

PathLength(fp) == rootLen + SegmentsLength(fp.dir) + 1 + Len(fp.base) + 3

\* breadcrumbs.map(sanitizePathSegment).filter(Boolean) (storage.js 280-282)
BreadcrumbParts(breadcrumbs) ==
  NonEmptySegments([i \in 1..Len(breadcrumbs) |-> sanitizePathSegment(breadcrumbs[i])])

\* the segments of the slug (storage.js 274-278)
NormalizedSlug(slug) == StripLeadingSlashes(OrIndex(slug))

SlugParts(slug) ==
  LET raw == SplitPath(NormalizedSlug(slug))
  IN [i \in 1..Len(raw) |-> sanitizePathSegment(toSlugSegment(raw[i]))]

\* baseName (storage.js 286)
BaseName(slug) ==
  LET parts == SlugParts(slug) IN
  IF parts = <<>> THEN IndexName ELSE parts[Len(parts)]

\* path.join(dirPath, `${safePath}.md`) (storage.js 279, 287)
PlainPath(slug, breadcrumbs) ==
  LET parts == SlugParts(slug) IN
  IF parts = <<>> THEN FilePath(BreadcrumbParts(breadcrumbs), IndexName)
  ELSE FilePath(BreadcrumbParts(breadcrumbs)
                  \o NonEmptySegments(SubSeq(parts, 1, Len(parts) - 1)),
                parts[Len(parts)])

\* path.join(dirPath, baseName) (storage.js 288)
TargetDir(slug, breadcrumbs) ==
  BreadcrumbParts(breadcrumbs) \o NonEmptySegments(<<BaseName(slug)>>)

\* the last breadcrumb and the slug name the same thing (storage.js 298-301)
IsCategoryPage(slug, breadcrumbs) ==
  LET crumbs == BreadcrumbParts(breadcrumbs) IN
  crumbs # <<>> /\ toSlugSegment(crumbs[Len(crumbs)]) = BaseName(slug)

\* the path before the length check (storage.js 287-303); `directories` are
\* the directories that exist under the pages root
UncheckedPath(slug, breadcrumbs, directories) ==
  IF IsCategoryPage(slug, breadcrumbs)
    THEN FilePath(BreadcrumbParts(breadcrumbs), IndexName)
  ELSE IF TargetDir(slug, breadcrumbs) \in directories
    THEN FilePath(TargetDir(slug, breadcrumbs), IndexName)
  ELSE PlainPath(slug, breadcrumbs)

\* a name made of the hash alone
HashedNameHashOnly(slug, breadcrumbs) ==
  hashString(slug \o <<"|">> \o JoinPath(BreadcrumbParts(breadcrumbs)))

\* the name used when the path is too long (storage.js 305-307)
HashedName(slug, breadcrumbs) ==
  makeHashedMarkdownFilename(
    OrIndex(toSlugSegment(OrIndex(NormalizedSlug(slug)))),
    hashString(slug \o <<"|">> \o JoinPath(BreadcrumbParts(breadcrumbs))))

\* slugToMarkdownPath (storage.js 273-316)
slugToMarkdownPath(slug, breadcrumbs, directories) ==
  LET filePath == UncheckedPath(slug, breadcrumbs, directories)
      hashed == FilePath(BreadcrumbParts(breadcrumbs), HashedName(slug, breadcrumbs))
  IN IF PathLength(filePath) <= MAX_MARKDOWN_PATH_CHARS THEN filePath
     ELSE IF PathLength(hashed) <= MAX_MARKDOWN_PATH_CHARS THEN hashed
     ELSE FilePath(<<>>, HashedName(slug, breadcrumbs))

\* ------------------------------------------------------------ page records
\* page.etag || null (storage.js 373-376, 512-515)
OrNull(v) == IF Truthy(v) THEN v ELSE Null

\* serializePageMarkdown (storage.js 366-381): the front matter, key by key,
\* and the body; `header` tells a complete file from a truncated one
serializePageMarkdown(page) ==
  [header |-> TRUE,
   slug |-> serializeYaml(page.slug),
   url |-> serializeYaml(page.url),
   title |-> serializeYaml(page.title),
   breadcrumbs |-> serializeYamlList(page.breadcrumbs),
   links |-> serializeYamlList(page.links),
   etag |-> serializeYaml(OrNull(page.etag)),
   lastModified |-> serializeYaml(OrNull(page.lastModified)),
   updatedAt |-> serializeYaml(OrNull(page.updatedAt)),
   lastCheckedAt |-> serializeYaml(OrNull(page.lastCheckedAt)),
   body |-> cleanMarkdown(page.text)]

\* a file opened for writing and not written yet: no front matter, no body
TruncatedFile ==
  [header |-> FALSE,
   slug |-> YamlScalar(NullWord),
   url |-> YamlScalar(NullWord),
   title |-> YamlScalar(NullWord),
   breadcrumbs |-> YamlList(<<>>),
   links |-> YamlList(<<>>),
   etag |-> YamlScalar(NullWord),
   lastModified |-> YamlScalar(NullWord),
   updatedAt |-> YamlScalar(NullWord),
   lastCheckedAt |-> YamlScalar(NullWord),
   body |-> <<>>]

\* path.relative(pagesDir, filePath) without ".md" (storage.js 468-471)
PathSlug(filePath) == JoinPath(Append(filePath.dir, filePath.base))

\* parseMarkdownPage (storage.js 455-517); headings and code blocks, which
\* are derived from the text, are left out of the page
parseMarkdownPage(content, filePath) ==
  LET metaSlug == ParseKey(content.slug)
      metaTitle == ParseKey(content.title)
      metaUrl == ParseKey(content.url)
      metaBreadcrumbs == ParseListKey(content.breadcrumbs)
      metaLinks == ParseListKey(content.links)
      slug == IF Truthy(metaSlug) THEN metaSlug ELSE Str(PathSlug(filePath))
      text == Trim(content.body)
      headings == extractMarkdownHeadings(text)
  IN [slug |-> slug,
      url |-> IF Truthy(metaUrl) THEN metaUrl ELSE Str(<<>>),
      title |-> IF Truthy(metaTitle) THEN metaTitle
                ELSE IF headings # <<>> /\ headings[1][2] # <<>> THEN Str(headings[1][2])
                ELSE slug,
      breadcrumbs |-> IF metaBreadcrumbs # <<>> THEN metaBreadcrumbs ELSE filePath.dir,
      links |-> IF metaLinks # <<>> THEN metaLinks ELSE extractMarkdownLinks(text),
      text |-> text,
      etag |-> OrNull(ParseKey(content.etag)),
      lastModified |-> OrNull(ParseKey(content.lastModified)),
      updatedAt |-> OrNull(ParseKey(content.updatedAt)),
      lastCheckedAt |-> OrNull(ParseKey(content.lastCheckedAt))]

\* the string a slug value is used as in a path
SlugString(v) == IF v.kind = "str" THEN v.val ELSE <<>>

\* the directories a save of `breadcrumbs` leaves under the pages root
RECURSIVE Prefixes(_)
Prefixes(dir) ==
  IF dir = <<>> THEN {<<>>} ELSE {dir} \cup Prefixes(SubSeq(dir, 1, Len(dir) - 1))

\* an ISO timestamp (it has "-" and ":"); the letters tell instants apart
Stamp(n) == <<"-", ":">> \o Repeat("a", n)

\* ------------------------------------------------------------- file system
\* The pages root: `dirs` is the set of directories (paths relative to the
\* root, the root itself is <<>>), `files` maps the path of every .md file
\* to its content.
EmptyFs == [dirs |-> {<<>>}, files |-> [fp \in {} |-> <<>>]]

Exists(fs, fp) == fp \in DOMAIN fs.files

\* fsPromises.rm(fp, {force: true})
RemoveFile(fs, fp) ==
  [fs EXCEPT !.files = [q \in (DOMAIN fs.files) \ {fp} |-> fs.files[q]]]

\* write `content` to fp (the directory exists)
PutFile(fs, fp, content) ==
  [fs EXCEPT !.files =
     [q \in (DOMAIN fs.files) \cup {fp} |-> IF q = fp THEN content ELSE fs.files[q]]]

\* fsPromises.rename(from, to)
RenameFile(fs, from, to) == RemoveFile(PutFile(fs, to, fs.files[from]), from)

\* fsPromises.mkdir(dir, {recursive: true})
MakeDir(fs, dir) == [fs EXCEPT !.dirs = fs.dirs \cup Prefixes(dir)]

\* one test of the candidate loop (storage.js 137-157 and 159-179): a file
\* that exists becomes the index of the category, or is removed when the
\* category has an index already
MoveToIndex(fs, fp, indexPath) ==
  IF ~Exists(fs, fp) THEN fs
  ELSE IF ~Exists(fs, indexPath) THEN RenameFile(fs, fp, indexPath)
  ELSE RemoveFile(fs, fp)

RECURSIVE MoveCandidates(_, _, _)
MoveCandidates(fs, paths, indexPath) ==
  IF paths = <<>> THEN [fs |-> fs, moved |-> FALSE]
  ELSE LET rest == MoveCandidates(MoveToIndex(fs, Head(paths), indexPath),
                                  Tail(paths), indexPath)
       IN [fs |-> rest.fs, moved |-> rest.moved \/ Exists(fs, Head(paths))]

Underscored(s) == [i \in 1..Len(s) |-> IF s[i] = "-" THEN "_" ELSE s[i]]
DocPrefix == <<"d", "o", "c", "_">>

\* legacyCandidates (storage.js 127-132), without ".md"; a name that
\* sanitizePathSegment would cut names no .md file
LegacyCandidates(slugName) ==
  SelectSeq(<<slugName, Underscored(slugName),
              DocPrefix \o slugName, DocPrefix \o Underscored(slugName)>>,
            LAMBDA name : Len(name) + 3 <= 80)

\* the paths tested for the candidates, in the order of the loop
CandidatePaths(currentDir, dirPath, slugName) ==
  LET names == LegacyCandidates(slugName) IN
  [k \in 1..(2 * Len(names)) |->
     IF k % 2 = 1 THEN FilePath(currentDir, names[(k + 1) \div 2])
                  ELSE FilePath(dirPath, names[k \div 2])]

\* name.replace(/^doc_/i, "") (storage.js 188)
StripDocPrefix(name) ==
  IF Len(name) >= 4 /\ ToLowerCase(SubSeq(name, 1, 4)) = DocPrefix
    THEN SubSeq(name, 5, Len(name))
    ELSE name

FilesIn(fs, dir) == {fp \in DOMAIN fs.files : fp.dir = dir}

\* String(metadata.key || "")
StringOf(v) == IF v.kind = "str" THEN v.val ELSE <<>>

\* the files of currentDir the second pass takes for the category
\* (storage.js 187-189)
NameMatches(fs, currentDir, slugName) ==
  {fp \in FilesIn(fs, currentDir) : toSlugSegment(StripDocPrefix(fp.base)) = slugName}

\* the files of currentDir the third pass takes for the category
\* (storage.js 224-236)
FrontMatterMatches(fs, currentDir, slugName, part) ==
  {fp \in FilesIn(fs, currentDir) :
     /\ fs.files[fp].header
     /\ LET slugValue == toSlugSegment(StringOf(ParseKey(fs.files[fp].slug)))
            titleValue == ToLowerCase(StringOf(ParseKey(fs.files[fp].title)))
        IN \/ slugValue # <<>> /\ slugValue = slugName
           \/ titleValue # <<>> /\ titleValue = ToLowerCase(part)}

\* path.join(currentDir, dirName)
JoinDir(currentDir, dirName) ==
  IF dirName = <<>> THEN currentDir ELSE Append(currentDir, dirName)

\* the body of the loop of ensureBreadcrumbDirectories for one breadcrumb
\* (storage.js 114-269): every file system it can leave.  The second and
\* third pass act on the first match in the order of readdir, which is any
\* of the matches.
EnsurePart(fs, currentDir, part) ==
  LET dirPath == JoinDir(currentDir, sanitizePathSegment(part))
      slugName == sanitizePathSegment(toSlugSegment(part))
      indexPath == FilePath(dirPath, IndexName)
      made == MakeDir(fs, dirPath)
      first == MoveCandidates(made, CandidatePaths(currentDir, dirPath, slugName), indexPath)
      byName == NameMatches(first.fs, currentDir, slugName)
      byFrontMatter == FrontMatterMatches(first.fs, currentDir, slugName, part)
  IN IF first.moved THEN {first.fs}
     ELSE IF byName # {} THEN {MoveToIndex(first.fs, fp, indexPath) : fp \in byName}
     ELSE IF byFrontMatter # {}
       THEN {MoveToIndex(first.fs, fp, indexPath) : fp \in byFrontMatter}
     ELSE {first.fs}

\* ensureBreadcrumbDirectories (storage.js 111-271)
RECURSIVE ensureBreadcrumbDirectories(_, _, _)
ensureBreadcrumbDirectories(fs, currentDir, parts) ==
  IF parts = <<>> THEN {fs}
  ELSE UNION {ensureBreadcrumbDirectories(
                next, JoinDir(currentDir, sanitizePathSegment(Head(parts))), Tail(parts)) :
              next \in EnsurePart(fs, currentDir, Head(parts))}

\* no page record is being handled
RecordIdle ==
  /\ saved = <<>>
  /\ stored = <<>>
  /\ previous = <<>>
  /\ loaded = <<>>
  /\ clock = 0

\* path.join(dataDir, "pages").length for a data directory near the root
ShortRootLen == 20

\* nothing is saved under the pages root
StoreIdle ==
  /\ rootLen = ShortRootLen
  /\ pagesDir = EmptyFs
  /\ writing = <<>>
  /\ written = <<>>
  /\ observed = <<>>
  /\ saves = 0

\* the object buildIndex starts from (crawl.js 708), and a process in
\* which nothing was indexed or searched
NoTerms == [t \in {} |-> <<>>]
NoEntries == [i \in {} |-> 0]

IndexIdle ==
  /\ corpus = <<>>
  /\ index = [pageCount |-> 0, terms |-> NoTerms]
  /\ objectOwn = NoEntries
  /\ result = <<>>

\* no page is being extracted
HtmlIdle ==
  /\ document = <<>>
  /\ allowedLanguages = <<>>
  /\ extracted = <<>>

\* `let pagesCache = null` and the three other caches (part_008 38-41)
NoCaches == [pages |-> <<>>, index |-> <<>>, bySlug |-> <<>>, byUrl |-> <<>>]
NoDataFiles == [pages |-> "missing", index |-> "missing", listed |-> {}]

\* the server has not started
ServerIdle ==
  /\ dataFiles = NoDataFiles
  /\ diskPages = {}
  /\ caches = NoCaches
  /\ fetchCalls = 0
  /\ response = <<>>

\* no client is connected
StdioIdle ==
  /\ sent = <<>>
  /\ stdin = <<>>
  /\ buffer = <<>>
  /\ pendingContentLength = <<>>
  /\ parsed = <<>>

\* no page is being processed
LinkIdle ==
  /\ currentUrl = <<>>
  /\ hrefs = <<>>
  /\ visitedBefore = {}
  /\ frontier = <<>>

\* the identifiers a client can give as sessionId
SessionIds == {"s1", "s2"}

RpcIdle ==
  /\ sessions = [s \in SessionIds |-> 0]
  /\ streamCount = 0
  /\ posts = <<>>
  /\ sseEvents = {}
  /\ dispatched = <<>>

ToolIdle == HtmlIdle /\ ServerIdle /\ StdioIdle /\ LinkIdle /\ RpcIdle

\* ------------------------------------------------------- loop conditions
\* the session budget tested after the fetch instead of before it
SessionBudgetOpenLax == sessionLimit = 0 \/ fetchedCount <= sessionLimit

\* fetchedCount < effectiveSessionLimit (crawl.js 243-246, 271)
SessionBudgetOpen == sessionLimit = 0 \/ fetchedCount < sessionLimit

\* pages.length < totalLimit (crawl.js 250-253, 270)
TotalBudgetOpen == totalLimit = 0 \/ pagesLen < totalLimit

\* the condition of the while loop (crawl.js 268-272)
LoopGuard == queue # <<>> /\ TotalBudgetOpen /\ SessionBudgetOpen

\* ------------------------------------------------------------- try block
\* the validators sent whatever the mode, as the loop did before forceFetch
ConditionalHeadersIgnoringForce(existing) ==
  existing.cached /\ existing.validators

\* the request carries If-None-Match / If-Modified-Since (crawl.js 282-290)
ConditionalHeaders(existing) ==
  ~forceFetch /\ existing.cached /\ existing.validators

\* the 304 is made up without a network call (crawl.js 292-293)
UseCachedWithoutFetch(existing) ==
  ~forceFetch /\ onlyNew /\ existing.cached /\ existing.hasLinks

\* a 304 for a page without recorded links is fetched again (crawl.js 297)
NeedsRefetch(existing, resp) == resp = "notModified" /\ ~existing.hasLinks

Call(cond, reply) == [cond |-> cond, reply |-> reply]

\* crawl.js 292-296: the response after the first statement of the try block
FirstResponses(existing) ==
  IF UseCachedWithoutFetch(existing)
    THEN {[calls |-> <<>>, resp |-> "notModified"]}
    ELSE {[calls |-> <<Call(ConditionalHeaders(existing), r)>>, resp |-> r] : r \in Replies}

\* crawl.js 297-299: the unconditional second fetch, when it is made
SecondResponses(existing, f) ==
  IF f.resp # "fail" /\ NeedsRefetch(existing, f.resp)
    THEN {[calls |-> Append(f.calls, Call(FALSE, r)), resp |-> r] : r \in Replies}
    ELSE {f}

\* every way the try block of one iteration can end (crawl.js 291-304);
\* resp = "fail" is the catch branch
TryResults(existing) ==
  UNION {SecondResponses(existing, f) : f \in FirstResponses(existing)}

\* -------------------------------------------------------------- link loop
\* the checks the link loop makes on each href (crawl.js 382-401), from
\* position i on: the URLs that pass them, in order, and whether
\* new URL(link, current) threw (the loop ends there)
RECURSIVE AdmitLinks(_, _)
AdmitLinks(links, i) ==
  IF i > Len(links) THEN [threw |-> FALSE, targets |-> <<>>]
  ELSE LET link == links[i] IN
    CASE link.kind \in {"fragment", "mailto", "javascript"} -> AdmitLinks(links, i + 1)
      [] link.kind = "invalid" -> [threw |-> TRUE, targets |-> <<>>]
      [] link.kind \in {"offhost", "offpath", "binary"} -> AdmitLinks(links, i + 1)
      [] OTHER ->
           LET rest == AdmitLinks(links, i + 1) IN
           [threw |-> rest.threw, targets |-> <<link.target>> \o rest.targets]

\* if (!visited.has(normalized)) queue.push(normalized) (crawl.js 402-404)
RECURSIVE PushUnvisited(_, _, _)
PushUnvisited(targets, vis, q) ==
  IF targets = <<>> THEN q
  ELSE PushUnvisited(Tail(targets), vis,
                     IF Head(targets) \in vis THEN q ELSE Append(q, Head(targets)))

\* what the hrefs of a page, and of a cached page with links, can pass on
Admissions == {AdmitLinks(l, 1) : l \in LinkLists}
CachedAdmissions == {AdmitLinks(l, 1) : l \in NonEmptyLinkLists}

\* the URLs the link loop has pushed
Pushed(before, after) == {after[k] : k \in (Len(before) + 1)..Len(after)}

\* loadPageMarkdownByMetadata (storage.js 678-690): the record is read from
\* the path derived from slug and breadcrumbs; a page that has no record, or
\* whose record lies at another path, reads as null
ReadResults(u) == IF u \in disk THEN BOOLEAN ELSE {FALSE}


\* ------------------------------------------------------------------- Init
\* runCrawl up to the loop (crawl.js 212-267).  The corpus on disk holds the
\* pages of earlier runs, which loadPageMetadataFromMarkdown lists
\* (storage.js 628-676), and the summary collection and index built from
\* them; in streaming mode createPagesWriter has already truncated
\* pages.json (crawl.js 181-184, 238)
Init ==
  /\ forceFetch \in BOOLEAN
  /\ onlyNew \in BOOLEAN
  /\ useMemoryPages \in BOOLEAN
  /\ sessionLimit \in 0..MaxBudget
  /\ totalLimit \in 0..MaxBudget
  /\ existingUrls \in SUBSET Urls
  /\ queue = <<RootUrl>>
  /\ visited = {}
  /\ pagesLen = 0
  /\ pageId = 0
  /\ reusedCount = 0
  /\ fetchedCount = 0
  /\ pc = "loop"
  /\ disk = existingUrls
  /\ summaryUrls = IF useMemoryPages THEN existingUrls ELSE {}
  /\ indexUrls = existingUrls
  /\ indexPageCount = Cardinality(existingUrls)
  /\ runPages = {}
  /\ discovered = {RootUrl}
  /\ skippedCount = 0
  /\ allHtml = TRUE
  /\ last = NoIteration
  /\ RecordIdle
  /\ StoreIdle
  /\ IndexIdle
  /\ ToolIdle

\* --------------------------------------------------------- parts of a step
\* queue.shift() and visited.add(current) (crawl.js 273-277) and the record
\* of the network calls the iteration made
Visit(current, existing, calls, outcome) ==
  /\ visited' = visited \cup {current}
  /\ allHtml' = (allHtml /\ \A k \in 1..Len(calls) : calls[k].reply = "html")
  /\ last' = [url |-> current, entry |-> existing, calls |-> calls, outcome |-> outcome]

\* pages.push(page) or pagesWriter.writePage(page), updateIndex and
\* pageId += 1 (crawl.js 318-324 and 364-370)
RecordPage(current) ==
  /\ pagesLen' = IF useMemoryPages THEN pagesLen + 1 ELSE pagesLen
  /\ summaryUrls' = IF useMemoryPages THEN summaryUrls ELSE summaryUrls \cup {current}
  /\ pageId' = pageId + 1
  /\ runPages' = runPages \cup {current}

\* a reuse that is charged to the session budget
ReuseCountersCharged ==
  /\ reusedCount' = reusedCount + 1
  /\ fetchedCount' = fetchedCount + 1

\* the counters of the reuse branch (crawl.js 326)
ReuseCounters ==
  /\ reusedCount' = reusedCount + 1
  /\ fetchedCount' = fetchedCount

\* the counters of a fresh page or asset (crawl.js 337, 371)
FetchCounters ==
  /\ fetchedCount' = fetchedCount + 1
  /\ reusedCount' = reusedCount

\* the link loop (crawl.js 381-405) applied to the frontier left after
\* queue.shift(), for a page whose hrefs pass on one of `admissions`
Enqueue(current, admissions) ==
  \E r \in {[threw |-> a.threw,
              queue |-> PushUnvisited(a.targets, visited \cup {current}, Tail(queue))] :
              a \in admissions} :
    /\ queue' = r.queue
    /\ discovered' = discovered \cup Pushed(Tail(queue), r.queue)
    /\ pc' = IF r.threw THEN "rejected" ELSE pc

Running == pc = "loop" /\ LoopGuard

\* ------------------------------------------------------------------ steps
\* testing the head of the frontier without queue.shift()
SkipVisitedKeepsQueue ==
  /\ Running
  /\ Head(queue) \in visited
  /\ UNCHANGED <<crawlVars, nonCrawl>>

\* crawl.js 273-276: the URL popped was already visited
SkipVisited ==
  /\ Running
  /\ Head(queue) \in visited
  /\ queue' = Tail(queue)
  /\ last' = [url |-> Head(queue), entry |-> NoEntry, calls |-> <<>>,
              outcome |-> "duplicate"]
  /\ UNCHANGED <<config, visited, pagesLen, pageId, reusedCount, fetchedCount, pc,
                 disk, summaryUrls, indexUrls, indexPageCount, runPages, discovered,
                 skippedCount, allHtml>>
  /\ UNCHANGED nonCrawl

\* crawl.js 300-304: a fetch of the try block threw; log and continue
IterSkip ==
  /\ Running
  /\ Head(queue) \notin visited
  /\ \E existing \in ExistingEntries(Head(queue)) :
       \E t \in TryResults(existing) :
         /\ t.resp = "fail"
         /\ Visit(Head(queue), existing, t.calls, "skipped")
  /\ queue' = Tail(queue)
  /\ skippedCount' = skippedCount + 1
  /\ UNCHANGED <<config, pagesLen, pageId, reusedCount, fetchedCount, pc,
                 disk, summaryUrls, indexUrls, indexPageCount, runPages, discovered>>
  /\ UNCHANGED nonCrawl

\* crawl.js 307-333: 304 for a cached page whose record could be read
IterReuse ==
  /\ Running
  /\ Head(queue) \notin visited
  /\ \E existing \in ExistingEntries(Head(queue)) :
       \E t \in TryResults(existing) :
         /\ t.resp = "notModified"
         /\ existing.cached
         /\ TRUE \in ReadResults(Head(queue))
         /\ Visit(Head(queue), existing, t.calls, "reused")
         /\ Enqueue(Head(queue),
                    IF existing.hasLinks THEN CachedAdmissions
                                         ELSE {AdmitLinks(<<>>, 1)})
  /\ RecordPage(Head(queue))
  /\ ReuseCounters
  /\ disk' = disk \cup {Head(queue)}
  /\ UNCHANGED <<config, indexUrls, indexPageCount, skippedCount>>
  /\ UNCHANGED nonCrawl

\* crawl.js 307-310: 304 for a cached page whose record could not be read;
\* the page is fetched again outside the try block and the response is not
\* used; a failure of that fetch leaves runCrawl
IterReloadMissing ==
  /\ Running
  /\ Head(queue) \notin visited
  /\ \E existing \in ExistingEntries(Head(queue)) :
       \E t \in TryResults(existing) :
         /\ t.resp = "notModified"
         /\ existing.cached
         /\ FALSE \in ReadResults(Head(queue))
         /\ \E r \in Replies :
              /\ Visit(Head(queue), existing, Append(t.calls, Call(FALSE, r)), "dropped")
              /\ pc' = IF r = "fail" THEN "rejected" ELSE pc
  /\ queue' = Tail(queue)
  /\ UNCHANGED <<config, pagesLen, pageId, reusedCount, fetchedCount,
                 disk, summaryUrls, indexUrls, indexPageCount, runPages, discovered,
                 skippedCount>>
  /\ UNCHANGED nonCrawl

\* crawl.js 335-338: a binary asset
IterAsset ==
  /\ Running
  /\ Head(queue) \notin visited
  /\ \E existing \in ExistingEntries(Head(queue)) :
       \E t \in TryResults(existing) :
         /\ t.resp = "asset"
         /\ Visit(Head(queue), existing, t.calls, "asset")
  /\ FetchCounters
  /\ queue' = Tail(queue)
  /\ UNCHANGED <<config, pagesLen, pageId, pc,
                 disk, summaryUrls, indexUrls, indexPageCount, runPages, discovered,
                 skippedCount>>
  /\ UNCHANGED nonCrawl

\* crawl.js 339-378: fresh HTML
IterFetched ==
  /\ Running
  /\ Head(queue) \notin visited
  /\ \E existing \in ExistingEntries(Head(queue)) :
       \E t \in TryResults(existing) :
         /\ t.resp = "html"
         /\ Visit(Head(queue), existing, t.calls, "fetched")
  /\ RecordPage(Head(queue))
  /\ FetchCounters
  /\ disk' = disk \cup {Head(queue)}
  /\ Enqueue(Head(queue), Admissions)
  /\ UNCHANGED <<config, indexUrls, indexPageCount, skippedCount>>
  /\ UNCHANGED nonCrawl

\* crawl.js 334-341: 304 for a URL without cached page; response.html is
\* undefined and extractTitle (html.js 166-167) throws
IterNoHtml ==
  /\ Running
  /\ Head(queue) \notin visited
  /\ \E existing \in ExistingEntries(Head(queue)) :
       \E t \in TryResults(existing) :
         /\ t.resp = "notModified"
         /\ ~existing.cached
         /\ Visit(Head(queue), existing, t.calls, "threw")
  /\ queue' = Tail(queue)
  /\ pc' = "rejected"
  /\ UNCHANGED <<config, pagesLen, pageId, reusedCount, fetchedCount,
                 disk, summaryUrls, indexUrls, indexPageCount, runPages, discovered,
                 skippedCount>>
  /\ UNCHANGED nonCrawl

\* crawl.js 416-449: the loop has ended; the summaries (memory mode:
\* savePages, storage.js 761-771) and the index of the pages of this run are
\* written and runCrawl resolves
Finish ==
  /\ pc = "loop"
  /\ ~LoopGuard
  /\ pc' = "done"
  /\ summaryUrls' = IF useMemoryPages THEN runPages ELSE summaryUrls
  /\ indexUrls' = runPages
  /\ indexPageCount' = IF useMemoryPages THEN pagesLen ELSE pageId
  /\ UNCHANGED <<config, queue, visited, pagesLen, pageId, reusedCount, fetchedCount,
                 disk, runPages, discovered, skippedCount, allHtml, last>>
  /\ UNCHANGED nonCrawl

Next ==
  \/ SkipVisited
  \/ IterSkip
  \/ IterReuse
  \/ IterReloadMissing
  \/ IterAsset
  \/ IterFetched
  \/ IterNoHtml
  \/ Finish

Spec == Init /\ [][Next]_vars

\* every await of an iteration settles: fetchResource returns or throws
\* within its timeout (crawl.js 118-170), so the loop takes its next step
LiveSpec == Spec /\ WF_vars(Next)


\* ------------------------------------------------------------ pages.json
\* the members of a set of URLs in ascending order
RECURSIVE InOrder(_)
InOrder(S) ==
  IF S = {} THEN <<>>
  ELSE LET least == CHOOSE u \in S : \A v \in S : u <= v
       IN <<least>> \o InOrder(S \ {least})

Line(kind, u) == [kind |-> kind, url |-> u]

\* the line savePages writes for a page (storage.js 768): the JSON of
\* summarizePage(page) on one line
SummaryLines(S) ==
  LET order == InOrder(S)
  IN [i \in 1..Len(order) |-> Line("summary", order[i])]

\* the lines writePage adds (crawl.js 186-190): JSON.stringify(page, null, 2)
\* spreads the page, its text included, over a line with the opening
\* brace, one line or more per member, and a line with the closing brace
RECURSIVE StreamedLines(_)
StreamedLines(order) ==
  IF order = <<>> THEN <<>>
  ELSE <<Line("brace", Head(order)), Line("member", Head(order)),
         Line("brace", Head(order))>> \o StreamedLines(Tail(order))

\* the lines of pages.json.  Streaming mode (crawl.js 181-196): "[" when
\* the writer is created, the pages as they are found, an empty line when
\* there is none, and "]" at close.  Memory mode with the module's own
\* savePages (storage.js 761-771): one summary per line.
PagesJson ==
  IF useMemoryPages THEN SummaryLines(summaryUrls)
  ELSE <<Line("bracket", 0)>>
         \o (IF summaryUrls = {} /\ pc = "done" THEN <<Line("empty", 0)>>
             ELSE StreamedLines(InOrder(summaryUrls)))
         \o (IF pc = "done" THEN <<Line("bracket", 0)>> ELSE <<>>)

\* ===================================================== one record, many runs
\* the crawl loop is not running
CrawlIdle ==
  /\ forceFetch = FALSE
  /\ onlyNew = FALSE
  /\ useMemoryPages = FALSE
  /\ sessionLimit = 0
  /\ totalLimit = 0
  /\ existingUrls = {}
  /\ queue = <<>>
  /\ visited = {}
  /\ pagesLen = 0
  /\ pageId = 0
  /\ reusedCount = 0
  /\ fetchedCount = 0
  /\ pc = "done"
  /\ disk = {}
  /\ summaryUrls = {}
  /\ indexUrls = {}
  /\ indexPageCount = 0
  /\ runPages = {}
  /\ discovered = {}
  /\ skippedCount = 0
  /\ allHtml = TRUE
  /\ last = NoIteration

\* most reuses of one record in a row
MaxRuns == 2

\* pages as the fresh branch of runCrawl assembles them (crawl.js 350-363)
SampleUrl == <<"a", ":", "a">>
SampleSlugs == {<<"a", "-", "a">>}
\* titles are trimmed and not empty (crawl.js 341, html.js 166-176)
Titles == {s \in Strings : s # <<>> /\ Trim(s) = s} \cup {NullWord, EmptyArrayWord}
PlainLabel == <<"A", "a">>
QuotedLabel == <<Quote, "a", Quote>>
SampleBreadcrumbs == {<<>>, <<PlainLabel>>, <<PlainLabel, NullWord>>, <<QuotedLabel>>}
SampleTexts ==
  {<<>>,
   <<"a">>,
   <<"#", " ", "a">>,
   <<"a", " ", "\n", "a">>,
   <<"a", " ", MarkdownLink>>}
SampleLinks == {<<>>, <<SampleUrl>>}
Validators == {Null, Str(<<"a">>)}

FreshPage(slug, title, breadcrumbs, text, links, validator) ==
  [slug |-> Str(slug),
   url |-> Str(SampleUrl),
   title |-> Str(title),
   breadcrumbs |-> breadcrumbs,
   links |-> links,
   text |-> text,
   etag |-> validator,
   lastModified |-> validator,
   updatedAt |-> Str(Stamp(0)),
   lastCheckedAt |-> Str(Stamp(0))]

FreshPages ==
  {FreshPage(slug, title, breadcrumbs, text, links, Null) :
     slug \in SampleSlugs, title \in Titles, breadcrumbs \in SampleBreadcrumbs,
     text \in SampleTexts, links \in SampleLinks}

\* where the record of a page lies when nothing else is under the pages root
RecordPath(page) ==
  slugToMarkdownPath(SlugString(page.slug), page.breadcrumbs,
                     Prefixes(BreadcrumbParts(page.breadcrumbs)))

RecordInit ==
  /\ CrawlIdle
  /\ StoreIdle
  /\ IndexIdle
  /\ ToolIdle
  /\ saved \in {<<page>> : page \in FreshPages}
  /\ stored = <<>>
  /\ previous = <<>>
  /\ loaded = <<>>
  /\ clock = 0

\* savePageMarkdown of a freshly fetched page (crawl.js 372-376)
FreshSave ==
  /\ stored = <<>>
  /\ stored' = <<serializePageMarkdown(saved[1])>>
  /\ UNCHANGED <<crawlVars, indexVars, toolVars, storeVars, saved, previous, loaded, clock>>

\* loadPageMarkdownByMetadata (storage.js 678-690)
LoadRecord ==
  /\ stored # <<>>
  /\ loaded = <<>>
  /\ loaded' = <<parseMarkdownPage(stored[1], RecordPath(saved[1]))>>
  /\ UNCHANGED <<crawlVars, indexVars, toolVars, storeVars, saved, stored, previous, clock>>

\* the reuse branch of runCrawl (crawl.js 308-331): the record is loaded,
\* gets the validators of the response and a new lastCheckedAt, and is saved
ReuseRecord ==
  /\ stored # <<>>
  /\ clock < MaxRuns
  /\ \E validator \in Validators :
       LET page == [parseMarkdownPage(stored[1], RecordPath(saved[1])) EXCEPT
                      !.etag = validator,
                      !.lastModified = validator,
                      !.lastCheckedAt = Str(Stamp(clock + 1))]
       IN /\ saved' = <<page>>
          /\ stored' = <<serializePageMarkdown(page)>>
  /\ previous' = stored
  /\ loaded' = <<>>
  /\ clock' = clock + 1
  /\ UNCHANGED <<crawlVars, indexVars, toolVars, storeVars>>

RecordNext == FreshSave \/ LoadRecord \/ ReuseRecord

RecordSpec == RecordInit /\ [][RecordNext]_vars


\* ================================================== saves under the pages root
\* most saves started in one behaviour
MaxSaves == 2

\* path.join(dataDir, "pages").length for a data directory deep in the tree
DeepRootLen == 236
RootLens == {ShortRootLen, DeepRootLen}

StorePage(slug, title, breadcrumbs) ==
  FreshPage(slug, title, breadcrumbs, <<"a">>, <<>>, Null)

LongLabel == <<"C">> \o Repeat("a", 99)

\* a page of a category, the landing page of the category, a page without
\* breadcrumbs named like the category, a page under a label that has
\* quotes, and two pages with a long slug under ten long labels
StorePages ==
  {StorePage(<<"d", "o", "c", "_", "a", "_", "c">>, <<"a">>, <<PlainLabel>>),
   StorePage(<<"d", "o", "c", "_", "A", "a">>, <<"a", "a">>, <<PlainLabel>>),
   StorePage(<<"a", "a">>, PlainLabel, <<>>),
   StorePage(<<"o", "-", "c">>, <<"o">>, <<QuotedLabel>>),
   StorePage(DocPrefix \o Repeat("a", 500), <<"c">>, [i \in 1..10 |-> LongLabel]),
   StorePage(Repeat(WideChar, 200), <<"d">>, [i \in 1..10 |-> LongLabel])}

\* the category directory a page without breadcrumbs is redirected to
\* (storage.js 528-546): entries.find takes the first match of readdir
RedirectTargets(tree, page, computed) ==
  LET baseName == sanitizePathSegment(toSlugSegment(SlugString(page.slug)))
      categories == {dir \in tree.dirs :
                       Len(dir) = 1 /\ sanitizePathSegment(toSlugSegment(dir[1])) = baseName}
  IN IF NonEmptySegments(page.breadcrumbs) = <<>> /\ Truthy(page.slug) /\ categories # {}
       THEN {FilePath(dir, IndexName) : dir \in categories}
       ELSE {computed}

\* the file systems ensureBreadcrumbDirectories can leave for a page
Ensured(tree, page) ==
  IF NonEmptySegments(page.breadcrumbs) = <<>> THEN {tree}
  ELSE ensureBreadcrumbDirectories(tree, <<>>, NonEmptySegments(page.breadcrumbs))

\* filePath.length > MAX_MARKDOWN_PATH_CHARS (storage.js 304)
PathTooLong(page, directories) ==
  PathLength(UncheckedPath(SlugString(page.slug), page.breadcrumbs, directories))
    > MAX_MARKDOWN_PATH_CHARS

StoreInit ==
  /\ CrawlIdle
  /\ RecordIdle
  /\ IndexIdle
  /\ ToolIdle
  /\ rootLen \in RootLens
  /\ pagesDir = EmptyFs
  /\ writing = <<>>
  /\ written = <<>>
  /\ observed = <<>>
  /\ saves = 0

\* savePageMarkdown up to the point where writeFile has opened the file
\* (storage.js 519-549): the path is computed, the category directories are
\* made and reconciled, and the file is created or truncated
SaveBegin ==
  /\ writing = <<>>
  /\ saves < MaxSaves
  /\ \E page \in StorePages :
       LET computed == slugToMarkdownPath(SlugString(page.slug), page.breadcrumbs,
                                          pagesDir.dirs)
       IN \E ensured \in Ensured(pagesDir, page) :
            \E target \in RedirectTargets(ensured, page, computed) :
              /\ pagesDir' = PutFile(MakeDir(ensured, target.dir), target, TruncatedFile)
              /\ writing' = <<[page |-> page, path |-> target, computed |-> computed,
                                tooLong |-> PathTooLong(page, pagesDir.dirs)]>>
  /\ saves' = saves + 1
  /\ UNCHANGED <<crawlVars, indexVars, toolVars, recordVars, rootLen, written, observed>>

\* the rest of savePageMarkdown (storage.js 549-560): the content is
\* written, and the file at the computed path is removed after a redirect
SaveEnd ==
  /\ writing # <<>>
  /\ LET save == writing[1]
         put == PutFile(pagesDir, save.path, serializePageMarkdown(save.page))
     IN pagesDir' = IF save.computed # save.path /\ Exists(put, save.computed)
                      THEN RemoveFile(put, save.computed)
                      ELSE put
  /\ written' = writing
  /\ writing' = <<>>
  /\ UNCHANGED <<crawlVars, indexVars, toolVars, recordVars, rootLen, observed, saves>>

\* the process stops between the two steps of a save
Crash ==
  /\ writing # <<>>
  /\ writing' = <<>>
  /\ UNCHANGED <<crawlVars, indexVars, toolVars, recordVars, rootLen, pagesDir, written, observed, saves>>

\* another process reads a page file (fsPromises.readFile, storage.js 589,
\* 685)
ReadFile ==
  /\ \E fp \in DOMAIN pagesDir.files :
       /\ observed # <<pagesDir.files[fp]>>
       /\ observed' = <<pagesDir.files[fp]>>
  /\ UNCHANGED <<crawlVars, indexVars, toolVars, recordVars, rootLen, pagesDir, writing, written, saves>>

StoreNext == SaveBegin \/ SaveEnd \/ Crash \/ ReadFile

StoreSpec == StoreInit /\ [][StoreNext]_vars

\* --------------------------------------------- a category over loose files
\* pages saved without breadcrumbs before their category was known: one
\* named like the category Aa, two titled like it, and one of another name
LoosePages ==
  {StorePage(<<"a", "a">>, <<"a">>, <<>>),
   StorePage(<<"c">>, PlainLabel, <<>>),
   StorePage(<<"b">>, PlainLabel, <<>>),
   StorePage(<<"o">>, <<"o">>, <<>>)}

\* the file of a loose page, and the file doc_aa.md of an earlier layout
LooseFile(page) == FilePath(<<>>, SlugString(page.slug))
LegacyFile == FilePath(<<>>, DocPrefix \o <<"a", "a">>)

RECURSIVE PutPages(_, _)
PutPages(tree, pages) ==
  IF pages = {} THEN tree
  ELSE LET page == CHOOSE one \in pages : TRUE
       IN PutPages(PutFile(tree, LooseFile(page), serializePageMarkdown(page)),
                   pages \ {page})

\* a file of the parent directory that the passes of
\* ensureBreadcrumbDirectories would take for the category
MatchesLabel(tree, fp, part) ==
  LET slugName == sanitizePathSegment(toSlugSegment(part))
  IN \/ fp \in NameMatches(tree, <<>>, slugName)
     \/ fp \in FrontMatterMatches(tree, <<>>, slugName, part)

\* the pages roots with loose files for the category Aa, with and without
\* the legacy file and the index of the category
LooseTrees ==
  LET trees == {PutPages(EmptyFs, pages) : pages \in SUBSET LoosePages}
      legacy == trees \cup {PutFile(tree, LegacyFile, TruncatedFile) : tree \in trees}
      indexed == legacy \cup
                 {PutFile(MakeDir(tree, <<PlainLabel>>), FilePath(<<PlainLabel>>, IndexName),
                          TruncatedFile) : tree \in legacy}
  IN {tree \in indexed : \E fp \in DOMAIN tree.files : MatchesLabel(tree, fp, PlainLabel)}

\* a page of the category and its landing page
CategoryPages ==
  {StorePage(<<"d", "o", "c", "_", "a", "_", "c">>, <<"a">>, <<PlainLabel>>),
   StorePage(<<"d", "o", "c", "_", "A", "a">>, <<"a", "a">>, <<PlainLabel>>)}

CategoryInit ==
  /\ CrawlIdle
  /\ RecordIdle
  /\ IndexIdle
  /\ ToolIdle
  /\ rootLen \in RootLens
  /\ pagesDir \in LooseTrees
  /\ writing = <<>>
  /\ written = <<>>
  /\ observed = <<>>
  /\ saves = 0

\* savePageMarkdown (storage.js 519-560) of a page of the category, from
\* the path to the written file
SaveInCategory ==
  /\ written = <<>>
  /\ \E page \in CategoryPages :
       LET computed == slugToMarkdownPath(SlugString(page.slug), page.breadcrumbs,
                                          pagesDir.dirs)
       IN \E ensured \in Ensured(pagesDir, page) :
            \E target \in RedirectTargets(ensured, page, computed) :
              /\ pagesDir' = PutFile(MakeDir(ensured, target.dir), target,
                                     serializePageMarkdown(page))
              /\ written' = <<[page |-> page, path |-> target, computed |-> computed,
                                tooLong |-> PathTooLong(page, pagesDir.dirs)]>>
  /\ saves' = saves + 1
  /\ UNCHANGED <<crawlVars, indexVars, toolVars, recordVars, rootLen, writing, observed>>

CategoryNext == SaveInCategory

CategorySpec == CategoryInit /\ [][CategoryNext]_vars

\* loadPagesFromMarkdown (storage.js 563-593)
loadPagesFromMarkdown(tree) ==
  {parseMarkdownPage(tree.files[fp], fp) : fp \in DOMAIN tree.files}


\* ========================================================= index and search
\* most pages in a list given to buildIndex
MaxPages == 2
\* largest limit given to searchIndex
MaxLimit == 2

\* the characters /[^a-zа-я0-9]+/gi leaves alone, over Latin letters
TermChars ==
  {"a", "b", "c", "d", "e", "f", "g", "h", "i", "j", "k", "l", "m", "n", "o", "p",
   "q", "r", "s", "t", "u", "v", "w", "x", "y", "z",
   "A", "B", "C", "D", "E", "F", "G", "H", "I", "J", "K", "L", "M", "N", "O", "P",
   "Q", "R", "S", "T", "U", "V", "W", "X", "Y", "Z",
   "0", "1", "2", "3", "4", "5", "6", "7", "8", "9"}

\* STOP_WORDS (crawl.js 656-695), the words in Latin letters
STOP_WORDS ==
  {<<"a">>, <<"a", "n">>, <<"a", "n", "d">>, <<"o", "r">>, <<"t", "h", "e">>,
   <<"t", "o">>, <<"o", "f">>, <<"i", "n">>, <<"o", "n">>, <<"f", "o", "r">>,
   <<"i", "s">>, <<"a", "r", "e">>, <<"w", "i", "t", "h">>, <<"b", "y">>,
   <<"b", "e">>, <<"a", "s">>, <<"a", "t">>, <<"f", "r", "o", "m">>}

\* s without the separators it starts with
RECURSIVE SkipSeparators(_)
SkipSeparators(s) ==
  IF s # <<>> /\ Head(s) \notin TermChars THEN SkipSeparators(Tail(s)) ELSE s

\* replace(/[^a-zа-я0-9]+/gi, " ") (crawl.js 702)
RECURSIVE SeparatorsToSpace(_)
SeparatorsToSpace(s) ==
  IF s = <<>> THEN <<>>
  ELSE IF Head(s) \in TermChars THEN <<Head(s)>> \o SeparatorsToSpace(Tail(s))
  ELSE <<" ">> \o SeparatorsToSpace(SkipSeparators(Tail(s)))

\* split(" ") (crawl.js 703)
RECURSIVE SplitSpaces(_)
SplitSpaces(s) ==
  IF \A i \in 1..Len(s) : s[i] # " " THEN <<s>>
  ELSE LET k == CHOOSE i \in 1..Len(s) : s[i] = " " /\ \A j \in 1..(i - 1) : s[j] # " "
       IN <<SubSeq(s, 1, k - 1)>> \o SplitSpaces(SubSeq(s, k + 1, Len(s)))

LongEnough(token) == Len(token) > 1
NoStopWord(token) == token \notin STOP_WORDS

\* tokenize (crawl.js 697-706)
tokenize(text) ==
  LET parts == SplitSpaces(SeparatorsToSpace(ToLowerCase(text)))
      trimmed == [i \in 1..Len(parts) |-> Trim(parts[i])]
  IN SelectSeq(SelectSeq(trimmed, LongEnough), NoStopWord)

\* the one name a token can have that every object inherits:
\* terms["constructor"] is the global Object function
Constructor == <<"c", "o", "n", "s", "t", "r", "u", "c", "t", "o", "r">>
Inherited == {Constructor}

Alpha == <<"a", "l", "p", "h", "a">>
Beta == <<"b", "e", "t", "a">>
Gamma == <<"g", "a", "m", "m", "a">>
Words(list) ==
  IF list = <<>> THEN <<>>
  ELSE LET RECURSIVE Spaced(_)
           Spaced(rest) == IF rest = <<>> THEN <<>> ELSE <<" ">> \o Head(rest) \o Spaced(Tail(rest))
       IN Head(list) \o Spaced(Tail(list))

\* the pages of the tests of the indexer and of the search, and a page
\* about constructors
SamplePages ==
  {[title |-> <<"A">> \o Tail(Alpha), text |-> Words(<<Alpha, Beta, Beta>>)],
   [title |-> <<"B">> \o Tail(Beta), text |-> Words(<<Beta, Gamma>>)],
   [title |-> <<"C">> \o Tail(Constructor),
    text |-> Words(<<<<"t", "h", "e">>, Constructor, <<"o", "f">>, <<"a">>>>) \o <<".">>]}

Corpora == UNION {[1..n -> SamplePages] : n \in 0..MaxPages}

Queries ==
  {Beta, Words(<<Beta, Beta>>), Words(<<Gamma, Alpha>>), Constructor,
   <<"B">> \o Tail(Beta) \o <<",", " ">> \o Words(<<<<"o", "f">>, Gamma>>)}

\* the texts of the sample pages and queries with their tokens: tokenize
\* is a function of the text, and is computed once for each of them
Tokenized ==
  [text \in {page.title \o <<" ">> \o page.text : page \in SamplePages} \cup Queries |->
     tokenize(text)]

Tokens(text) == IF text \in DOMAIN Tokenized THEN Tokenized[text] ELSE tokenize(text)

\* counts.get(token) after the loop of crawl.js 713-715
Count(token, tokens) == Cardinality({i \in 1..Len(tokens) : tokens[i] = token})

\* tokenize(`${page.title} ${page.text}`) (crawl.js 711)
PageTokens(page) == Tokens(page.title \o <<" ">> \o page.text)

\* the page ordinals of a list: forEach((page, pageId) => ...) counts from 0
Ordinals(pages) == 0..(Len(pages) - 1)

\* buildIndex (crawl.js 708-732).  `terms[term]` is undefined for a new
\* term, which gets an object of its own, and is the Object function for
\* the term "constructor": `!terms[term]` is false, terms gets no entry, and
\* the count becomes a property of Object, where it stays
buildIndex(pages, object) ==
  LET tokens == [i \in Ordinals(pages) |-> PageTokens(pages[i + 1])]
      found == UNION {{tokens[i][j] : j \in 1..Len(tokens[i])} : i \in Ordinals(pages)}
      holders == [term \in found |-> {i \in Ordinals(pages) : Count(term, tokens[i]) > 0}]
      counted == [term \in found |-> [i \in holders[term] |-> Count(term, tokens[i])]]
      polluted == UNION {holders[term] : term \in found \cap Inherited}
  IN [index |-> [pageCount |-> Len(pages),
                 terms |-> [term \in found \ Inherited |-> counted[term]]],
      object |-> [i \in (DOMAIN object) \cup polluted |->
                    IF i \in polluted THEN counted[Constructor][i] ELSE object[i]]]

\* index.terms[token] (search.js 95): <<postings>>, or <<>> when undefined
Postings(terms, object, token) ==
  IF token \in DOMAIN terms THEN <<terms[token]>>
  ELSE IF token \in Inherited THEN <<object>>
  ELSE <<>>

\* Object.entries(postings): the ordinals in ascending order
Entries(postings) ==
  LET order == InOrder(DOMAIN postings)
  IN [k \in 1..Len(order) |-> [pageId |-> order[k], count |-> postings[order[k]]]]

\* the additions the two loops of search.js 93-102 make, in order
RECURSIVE Additions(_, _, _)
Additions(terms, object, tokens) ==
  IF tokens = <<>> THEN <<>>
  ELSE LET postings == Postings(terms, object, Head(tokens))
       IN (IF postings = <<>> THEN <<>> ELSE Entries(postings[1]))
          \o Additions(terms, object, Tail(tokens))

RECURSIVE SumCounts(_, _)
SumCounts(additions, id) ==
  IF additions = <<>> THEN 0
  ELSE (IF Head(additions).pageId = id THEN Head(additions).count ELSE 0)
       + SumCounts(Tail(additions), id)

\* the keys of the Map `scores` in the order they were set first
RECURSIVE FirstSeen(_, _)
FirstSeen(additions, seen) ==
  IF additions = <<>> THEN <<>>
  ELSE IF Head(additions).pageId \in seen THEN FirstSeen(Tail(additions), seen)
  ELSE <<Head(additions).pageId>>
         \o FirstSeen(Tail(additions), seen \cup {Head(additions).pageId})

\* Array.from(scores.entries()) (search.js 105-110)
ScoreEntries(additions) ==
  LET ids == FirstSeen(additions, {})
  IN [k \in 1..Len(ids) |-> [pageId |-> ids[k], score |-> SumCounts(additions, ids[k])]]

\* the place of an item in a list sorted by rising score
InsertRising(sorted, item) ==
  IF sorted = <<>> THEN <<item>>
  ELSE LET behind == {k \in 1..Len(sorted) : sorted[k].score <= item.score}
           n == Cardinality(behind)
       IN SubSeq(sorted, 1, n) \o <<item>> \o SubSeq(sorted, n + 1, Len(sorted))

\* the place of an item in a list sorted by falling score: behind every
\* item that does not score less (the sort is stable)
RECURSIVE Insert(_, _)
Insert(sorted, item) ==
  IF sorted = <<>> THEN <<item>>
  ELSE IF Head(sorted).score >= item.score THEN <<Head(sorted)>> \o Insert(Tail(sorted), item)
  ELSE <<item>> \o sorted

\* sort((a, b) => b.score - a.score) (search.js 111)
RECURSIVE SortByScore(_)
SortByScore(items) ==
  IF items = <<>> THEN <<>>
  ELSE Insert(SortByScore(SubSeq(items, 1, Len(items) - 1)), items[Len(items)])

\* slice(0, limit) (search.js 112): a negative limit counts from the end
Slice(items, limit) ==
  LET end == IF limit < 0 THEN (IF Len(items) + limit > 0 THEN Len(items) + limit ELSE 0)
             ELSE IF limit < Len(items) THEN limit ELSE Len(items)
  IN SubSeq(items, 1, end)

\* searchIndex (search.js 90-138) without the excerpts
searchIndex(idx, pages, query, limit, object) ==
  LET tokens == Tokens(query)
      ranked == Slice(SortByScore(ScoreEntries(Additions(idx.terms, object, tokens))), limit)
  IN [query |-> query,
      limit |-> limit,
      tokens |-> tokens,
      totalMatches |-> Len(ranked),
      results |-> ranked]

IndexInit ==
  /\ CrawlIdle
  /\ RecordIdle
  /\ StoreIdle
  /\ IndexIdle
  /\ ToolIdle

\* index = buildIndex(pages)
BuildIndex ==
  /\ \E pages \in Corpora :
       LET built == buildIndex(pages, objectOwn)
       IN /\ corpus' = pages
          /\ index' = built.index
          /\ objectOwn' = built.object
  /\ result' = <<>>
  /\ UNCHANGED <<crawlVars, recordVars, storeVars, toolVars>>

\* the index goes through index.json into a new process (storage.js
\* 778-784, part_008 loadData): the own properties of terms are kept
Restart ==
  /\ objectOwn # NoEntries
  /\ objectOwn' = NoEntries
  /\ result' = <<>>
  /\ UNCHANGED <<corpus, index>>
  /\ UNCHANGED <<crawlVars, recordVars, storeVars, toolVars>>

\* the limits handleToolCall passes on: args.limit if it is a finite number
\* (part_008 286-287); the schema asks for 1 to 20, nothing enforces it
Limits == (-1)..MaxLimit

\* searchIndex(index, pages, query, limit)
Search ==
  /\ \E query \in Queries, limit \in Limits :
       result' = <<searchIndex(index, corpus, query, limit, objectOwn)>>
  /\ UNCHANGED <<corpus, index, objectOwn>>
  /\ UNCHANGED <<crawlVars, recordVars, storeVars, toolVars>>

IndexNext == BuildIndex \/ Restart \/ Search

IndexSpec == IndexInit /\ [][IndexNext]_vars


\* ============================================================ HTML of a page
\* most elements of a document
MaxElements == 2

Element(tag, text, lang) == [tag |-> tag, text |-> text, lang |-> lang]

\* what an element can hold: nothing, white space, a word, a word after
\* white space
ElementTexts == {<<>>, <<" ">>, <<"a">>, <<" ", "a">>}

\* the labels of code samples: class="language-..." or data-language
CodeLabels == {"", "cs", "C#", "csharp", "js", "python"}

Elements ==
  {Element(tag, text, "") : tag \in {"title", "h1", "p"}, text \in ElementTexts}
    \cup {Element("pre", <<"a">>, lang) : lang \in CodeLabels}
    \cup {Element("pre", <<" ">>, "cs")}

Documents == UNION {[1..n -> Elements] : n \in 0..MaxElements}

\* the allow-lists: none, and CODE_LANGUAGES=cs,js (config.js 90)
AllowLists == {<<>>, <<{"cs", "js"}>>}

\* html.match(/<tag[^>]*>([\s\S]*?)<\/tag>/i): <<text>> of the first
\* element with the tag, <<>> without a match
FirstMatch(html, tag) ==
  LET hits == {k \in 1..Len(html) : html[k].tag = tag}
  IN IF hits = {} THEN <<>>
     ELSE <<html[CHOOSE k \in hits : \A j \in hits : k <= j].text>>

\* extractTitle (part_009 227-237, html.js 166-176)
extractTitle(html) ==
  LET titleMatch == FirstMatch(html, "title")
      headingMatch == FirstMatch(html, "h1")
  IN IF titleMatch # <<>> THEN Trim(titleMatch[1])
     ELSE IF headingMatch # <<>> THEN Trim(headingMatch[1])
     ELSE <<>>

\* normalizeLanguage (part_009 239-260) on the labels of the model
normalizeLanguage(value) ==
  CASE value \in {"C#", "cs", "csharp"} -> "cs"
    [] value = "js" -> "javascript"
    [] OTHER -> value

\* the code blocks of extractText (part_009 527-560): every <pre> with
\* code in it, under its normalized label; the function has the parameters
\* (html, baseUrl) and does not look at the options it is called with
RECURSIVE extractCodeBlocks(_)
extractCodeBlocks(html) ==
  IF html = <<>> THEN <<>>
  ELSE (IF Head(html).tag = "pre" /\ Trim(Head(html).text) # <<>>
          THEN <<[code |-> Trim(Head(html).text),
                  language |-> normalizeLanguage(Head(html).lang)]>>
          ELSE <<>>)
       \o extractCodeBlocks(Tail(html))

HtmlInit ==
  /\ CrawlIdle
  /\ RecordIdle
  /\ StoreIdle
  /\ IndexIdle
  /\ ServerIdle
  /\ StdioIdle
  /\ LinkIdle
  /\ RpcIdle
  /\ document \in Documents
  /\ allowedLanguages \in AllowLists
  /\ extracted = <<>>

\* the page of a fresh fetch (crawl.js 340-363):
\* extractTitle(html) || current, and the code blocks of
\* extractText(html, current, {allowedLanguages})
ExtractPage ==
  /\ extracted = <<>>
  /\ extracted' = <<[title |-> extractTitle(document),
                     codeBlocks |-> extractCodeBlocks(document)]>>
  /\ UNCHANGED <<document, allowedLanguages>>
  /\ UNCHANGED <<coreVars, serverVars, stdioVars, linkVars, rpcVars>>

HtmlNext == ExtractPage

HtmlSpec == HtmlInit /\ [][HtmlNext]_vars


\* ======================================================= get_page and loadData
\* most fetchAndCachePage calls of one process
MaxFetches == 2

\* DOCS_BASE_URL: http://x/
BaseUrl == <<"h", "t", "t", "p", ":", "/", "/", "x", "/">>
BaseOrigin == SubSeq(BaseUrl, 1, 8)
BasePathname == <<"/">>

\* value.split(c)[0]
BeforeChar(value, c) ==
  IF \A i \in 1..Len(value) : value[i] # c THEN value
  ELSE SubSeq(value, 1, (CHOOSE i \in 1..Len(value) :
                           value[i] = c /\ \A j \in 1..(i - 1) : value[j] # c) - 1)

\* trimmed.startsWith("http")
StartsWithHttp(value) == Len(value) >= 4 /\ SubSeq(value, 1, 4) = SubSeq(BaseUrl, 1, 4)

\* new URL(url).pathname for a URL of the site
Pathname(url) ==
  BeforeChar(BeforeChar(SubSeq(url, Len(BaseOrigin) + 1, Len(url)), "?"), "#")

\* a record of pages.json; JSON.parse also yields null for a line `null`
ServedPage(slug, url) == [slug |-> slug, url |-> url, null |-> FALSE]
NullRecord == [slug |-> <<>>, url |-> <<>>, null |-> TRUE]

\* page.slug of some record throws a TypeError
HasNull(pages) == \E page \in pages : page.null

\* new Map(pages.map((page) => [page.key, page])) (part_008 105-106)
MapBy(pages, key) ==
  [k \in {page[key] : page \in pages} |-> CHOOSE page \in pages : page[key] = k]

\* the four caches filled from a page list (part_008 103-106, 262-265)
CachesOf(pages) ==
  [pages |-> <<pages>>, index |-> <<{page.slug : page \in pages}>>,
   bySlug |-> <<MapBy(pages, "slug")>>, byUrl |-> <<MapBy(pages, "url")>>]

\* map?.get(key) || null as <<page>> or <<>>
Get(map, key) == IF map # <<>> /\ key \in DOMAIN map[1] THEN <<map[1][key]>> ELSE <<>>

\* resolvePage (part_008 178-194)
resolvePage(c, slug) ==
  LET trimmed == Trim(slug)
  IN IF Get(c.byUrl, trimmed) # <<>> THEN Get(c.byUrl, trimmed)
     ELSE IF Get(c.bySlug, trimmed) # <<>> THEN Get(c.bySlug, trimmed)
     ELSE IF StartsWithHttp(trimmed) THEN Get(c.byUrl, BeforeChar(trimmed, "#"))
     ELSE Get(c.bySlug, StripLeadingSlashes(trimmed))

\* pages.find(...) || null as <<page>> or <<>>
Find(pages, key, value) ==
  IF \E page \in pages : page[key] = value
    THEN <<CHOOSE page \in pages : page[key] = value>>
    ELSE <<>>

\* resolvePageFromPages (part_008 196-214)
resolvePageFromPages(pages, slug) ==
  LET trimmed == Trim(slug)
  IN IF Find(pages, "url", trimmed) # <<>> THEN Find(pages, "url", trimmed)
     ELSE IF Find(pages, "slug", StripLeadingSlashes(trimmed)) # <<>>
       THEN Find(pages, "slug", StripLeadingSlashes(trimmed))
     ELSE IF StartsWithHttp(trimmed) THEN Find(pages, "url", BeforeChar(trimmed, "#"))
     ELSE <<>>

\* pages.find reads page.url of a null record: no record before it matches
\* (part_008 200-203)
LookupThrows(c, slug) ==
  /\ resolvePage(c, slug) = <<>>
  /\ HasNull(c.pages[1])
  /\ Find(c.pages[1], "url", Trim(slug)) = <<>>

\* resolvePageUrl (part_008 215-222)
resolvePageUrl(slug) ==
  LET trimmed == Trim(slug)
  IN IF StartsWithHttp(trimmed) THEN BeforeChar(trimmed, "#")
     ELSE BaseUrl \o StripLeadingSlashes(trimmed)

\* the page fetchAndCachePage builds (part_008 224-254)
FetchedPage(slug) ==
  LET url == resolvePageUrl(slug)
      rest == SubSeq(Pathname(url), Len(BasePathname) + 1, Len(Pathname(url)))
  IN ServedPage(IF rest = <<>> THEN <<"i", "n", "d", "e", "x">> ELSE rest, url)

\* the markdown store after savePageMarkdown(page): the file of the slug
\* holds the page
Stored(pages, page) == {other \in pages : other.slug # page.slug} \cup {page}

\* assigning the caches before the files are written
CachesBeforeSave(c, pages) == CachesOf(pages)

\* the caches a failed fetchAndCachePage leaves: they are assigned after
\* the last await (part_008 256-265)
CachesAfterFailedSave(c, pages) == c

DataMissingMessage ==
  <<"Index data not found", "Expected files: pages.json and index.json",
    "Underlying error", "Run: npm run crawl">>

\* loadData (part_008 96-150)
loadData(files, c) ==
  IF c.pages # <<>> /\ c.index # <<>> THEN [ok |-> TRUE, caches |-> c]
  ELSE IF files.pages # "valid" \/ files.index # "valid"
    THEN [ok |-> FALSE, caches |-> c]
  ELSE IF HasNull(files.listed)
    THEN [ok |-> FALSE,
          caches |-> [c EXCEPT !.pages = <<files.listed>>,
                               !.index = <<{page.slug : page \in files.listed}>>]]
  ELSE [ok |-> TRUE, caches |-> CachesOf(files.listed)]

\* fetching on every call
FetchAttemptsAlways(page, allowFetch) == IF allowFetch THEN 1 ELSE 0

\* how many times get_page calls fetchAndCachePage (part_008 308-316)
FetchAttempts(page, allowFetch) == IF page = <<>> /\ allowFetch THEN 1 ELSE 0

Outcome(tool, slug) ==
  [tool |-> tool, lookup |-> slug, loadFailed |-> FALSE, miss |-> FALSE,
   allowFetch |-> FALSE, fetches |-> 0, fetchFailed |-> FALSE, threw |-> FALSE,
   lookupThrew |-> FALSE, code |-> "", isError |-> FALSE, text |-> <<>>,
   cachesAtLookup |-> NoCaches]

\* the error loadData throws
DataMissing(tool, slug) ==
  [Outcome(tool, slug) EXCEPT !.loadFailed = TRUE, !.threw = TRUE,
                              !.code = "DATA_MISSING", !.text = DataMissingMessage]

Lookups ==
  {<<"a">>, <<"/", "a">>, <<" ", "a">>, <<"a", "#", "f">>, <<"a", "?", "q">>,
   BaseUrl \o <<"a">>, BaseUrl \o <<"a", "#", "f">>, <<"b">>}

PageLists == {{}, {ServedPage(<<"a">>, BaseUrl \o <<"a">>)}}

FileStates == {"missing", "invalid", "valid"}

ServerInit ==
  /\ CrawlIdle
  /\ RecordIdle
  /\ StoreIdle
  /\ IndexIdle
  /\ HtmlIdle
  /\ StdioIdle
  /\ LinkIdle
  /\ RpcIdle
  /\ diskPages \in PageLists
  /\ dataFiles \in {[pages |-> p, index |-> i, listed |-> IF p = "valid" THEN l ELSE {}] :
                     p \in FileStates, i \in FileStates,
                     l \in {diskPages, diskPages \cup {NullRecord}}}
  /\ caches = NoCaches
  /\ fetchCalls = 0
  /\ response = <<>>

\* a tool call that only loads the data: search_docs and the like up to
\* their `await loadData()` (part_008 285)
LoadData ==
  /\ LET data == loadData(dataFiles, caches)
     IN /\ caches' = data.caches
        /\ response' = <<IF data.ok THEN Outcome("search_docs", <<>>)
                      ELSE DataMissing("search_docs", <<>>)>>
  /\ response' # response
  /\ UNCHANGED <<dataFiles, diskPages, fetchCalls>>
  /\ UNCHANGED <<coreVars, htmlVars, stdioVars, linkVars, rpcVars>>

\* handleToolCall("get_page", {slug}) (part_008 302-333) with
\* fetchAndCachePage (part_008 224-272); the reply of the site and the
\* success of the writes are inputs
GetPage ==
  /\ fetchCalls < MaxFetches
  /\ \E slug \in Lookups, allowFetch \in BOOLEAN, site \in {"ok", "fetchFails", "saveFails"} :
       LET data == loadData(dataFiles, caches)
           page == IF resolvePage(data.caches, slug) # <<>>
                     THEN resolvePage(data.caches, slug)
                     ELSE resolvePageFromPages(data.caches.pages[1], slug)
           attempts == FetchAttempts(page, allowFetch)
           fetched == FetchedPage(slug)
           kept == Stored(diskPages, fetched)
           base == [Outcome("get_page", slug) EXCEPT
                      !.miss = (page = <<>>), !.allowFetch = allowFetch,
                      !.fetches = attempts, !.cachesAtLookup = data.caches]
       IN IF ~data.ok
            THEN /\ response' = <<DataMissing("get_page", slug)>>
                 /\ caches' = data.caches
                 /\ UNCHANGED <<dataFiles, diskPages, fetchCalls>>
          ELSE IF LookupThrows(data.caches, slug)
            THEN /\ response' = <<[Outcome("get_page", slug) EXCEPT
                                     !.lookupThrew = TRUE, !.threw = TRUE,
                                     !.code = "TypeError"]>>
                 /\ caches' = data.caches
                 /\ UNCHANGED <<dataFiles, diskPages, fetchCalls>>
          ELSE IF attempts = 0
            THEN /\ response' = <<IF page = <<>>
                                 THEN [base EXCEPT !.isError = TRUE,
                                         !.text = <<"Page not found for slug">>]
                                 ELSE [base EXCEPT !.text = <<"page">>]>>
                 /\ caches' = data.caches
                 /\ UNCHANGED <<dataFiles, diskPages, fetchCalls>>
          ELSE /\ fetchCalls' = fetchCalls + attempts
               /\ CASE site = "ok" ->
                         /\ diskPages' = kept
                         /\ dataFiles' = [pages |-> "valid", index |-> "valid", listed |-> kept]
                         /\ caches' = CachesOf(kept)
                         /\ response' = <<[base EXCEPT !.text = <<"page">>]>>
                    [] site = "fetchFails" ->
                         /\ caches' = data.caches
                         /\ response' = <<[base EXCEPT !.fetchFailed = TRUE, !.isError = TRUE,
                                          !.text = <<"Page not found and fetch failed for slug">>]>>
                         /\ UNCHANGED <<dataFiles, diskPages>>
                    [] site = "saveFails" ->
                         /\ diskPages' = kept
                         /\ caches' = CachesAfterFailedSave(data.caches, kept)
                         /\ response' = <<[base EXCEPT !.fetchFailed = TRUE, !.isError = TRUE,
                                          !.text = <<"Page not found and fetch failed for slug">>]>>
                         /\ UNCHANGED dataFiles
  /\ UNCHANGED <<coreVars, htmlVars, stdioVars, linkVars, rpcVars>>

\* npm run crawl in another process: both files are written from the
\* markdown store
CrawlWritesFiles ==
  /\ dataFiles.pages # "valid" \/ dataFiles.index # "valid"
  /\ dataFiles' = [pages |-> "valid", index |-> "valid", listed |-> diskPages]
  /\ UNCHANGED <<diskPages, caches, fetchCalls, response>>
  /\ UNCHANGED <<coreVars, htmlVars, stdioVars, linkVars, rpcVars>>

ServerNext == LoadData \/ GetPage \/ CrawlWritesFiles

ServerSpec == ServerInit /\ [][ServerNext]_vars


\* ================================================================ stdio framing
\* most messages of one client
MaxMessages == 2

CR == "\r"
LF == "\n"
HeaderEnd == <<CR, LF, CR, LF>>
ContentLength ==
  <<"C", "o", "n", "t", "e", "n", "t", "-", "L", "e", "n", "g", "t", "h", ":">>
DigitChars == <<"0", "1", "2", "3", "4", "5", "6", "7", "8", "9">>

\* text.indexOf(part): the index before the first occurrence, from 0, or -1
IndexOf(text, part) ==
  LET at == {i \in 1..(Len(text) - Len(part) + 1) : SubSeq(text, i, i + Len(part) - 1) = part}
  IN IF at = {} THEN -1 ELSE (CHOOSE i \in at : \A j \in at : i <= j) - 1

IsDigit(c) == \E d \in 1..10 : DigitChars[d] = c

\* Number.parseInt(digits, 10)
RECURSIVE ParseInt(_)
ParseInt(digits) ==
  IF digits = <<>> THEN 0
  ELSE 10 * ParseInt(SubSeq(digits, 1, Len(digits) - 1))
       + (CHOOSE d \in 0..9 : DigitChars[d + 1] = digits[Len(digits)])

RECURSIVE SkipWhite(_)
SkipWhite(text) ==
  IF text # <<>> /\ Head(text) \in {" ", CR, LF} THEN SkipWhite(Tail(text)) ELSE text

RECURSIVE LeadingDigits(_)
LeadingDigits(text) ==
  IF text # <<>> /\ IsDigit(Head(text)) THEN <<Head(text)>> \o LeadingDigits(Tail(text))
  ELSE <<>>

\* header.match(/Content-Length:\s*(\d+)/i): <<digits>> or <<>>
MatchContentLength(header) ==
  LET at == IndexOf(header, ContentLength)
      digits == LeadingDigits(SkipWhite(SubSeq(header, at + Len(ContentLength) + 1, Len(header))))
  IN IF at < 0 \/ digits = <<>> THEN <<>> ELSE <<digits>>

\* line.trim()
RECURSIVE TrimLine(_)
TrimLine(text) ==
  IF text # <<>> /\ Head(text) \in {" ", CR, LF} THEN TrimLine(Tail(text))
  ELSE IF text # <<>> /\ text[Len(text)] \in {" ", CR, LF}
    THEN TrimLine(SubSeq(text, 1, Len(text) - 1))
  ELSE text

\* the bodies a client sends: {} and the strings "W" and "a", W a Cyrillic
\* letter of one UTF-16 unit and two UTF-8 bytes
Bodies == {<<"{", "}">>, <<Quote, WideChar, Quote>>, <<Quote, "a", Quote>>}

\* JSON.parse(text) returns
IsJson(text) == TrimLine(text) \in Bodies

\* the number n < 100 in decimal
Decimal(n) ==
  IF n < 10 THEN <<DigitChars[n + 1]>>
  ELSE <<DigitChars[(n \div 10) + 1], DigitChars[(n % 10) + 1]>>

\* a message as an LSP client frames it: the length is in bytes
Frame(body) == ContentLength \o <<" ">> \o Decimal(ByteLength(body)) \o HeaderEnd \o body

RECURSIVE Frames(_)
Frames(bodies) == IF bodies = <<>> THEN <<>> ELSE Frame(Head(bodies)) \o Frames(Tail(bodies))

\* buffer.slice(n)
SliceFrom(text, n) == SubSeq(text, n + 1, Len(text))

\* one JSON.parse of processBuffer: the text, how it was delimited, the
\* pending length if any, and whether it was handled or answered with a
\* parse error
Parsed(text, via, pending) ==
  [text |-> text, via |-> via, pending |-> pending, ok |-> IsJson(text)]

\* processBuffer (part_008 460-505) on [buffer, pending, parsed]
RECURSIVE processBuffer(_)
processBuffer(st) ==
  IF st.buffer = <<>> THEN st
  ELSE IF st.pending # <<>>
    THEN IF Len(st.buffer) < st.pending[1] THEN st
         ELSE processBuffer(
                [buffer |-> SliceFrom(st.buffer, st.pending[1]),
                 pending |-> <<>>,
                 parsed |-> Append(st.parsed,
                                   Parsed(SubSeq(st.buffer, 1, st.pending[1]), "frame",
                                          st.pending))])
  ELSE LET headerEnd == IndexOf(st.buffer, HeaderEnd)
           newlineIndex == IndexOf(st.buffer, <<LF>>)
       IN IF headerEnd >= 0 /\ IndexOf(SubSeq(st.buffer, 1, headerEnd), ContentLength) >= 0
            THEN LET match == MatchContentLength(SubSeq(st.buffer, 1, headerEnd))
                 IN processBuffer(
                      [buffer |-> SliceFrom(st.buffer, headerEnd + 4),
                       pending |-> IF match = <<>> THEN <<>> ELSE <<ParseInt(match[1])>>,
                       parsed |-> IF match = <<>>
                                    THEN Append(st.parsed, Parsed(<<>>, "header", <<>>))
                                    ELSE st.parsed])
          ELSE IF newlineIndex = -1 THEN st
          ELSE LET line == TrimLine(SubSeq(st.buffer, 1, newlineIndex))
               IN processBuffer(
                    [buffer |-> SliceFrom(st.buffer, newlineIndex + 1),
                     pending |-> <<>>,
                     parsed |-> IF line = <<>> THEN st.parsed
                                ELSE Append(st.parsed, Parsed(line, "line", <<>>))])

MessageLists == UNION {[1..n -> Bodies] : n \in 1..MaxMessages}

StdioInit ==
  /\ CrawlIdle
  /\ RecordIdle
  /\ StoreIdle
  /\ IndexIdle
  /\ HtmlIdle
  /\ ServerIdle
  /\ LinkIdle
  /\ RpcIdle
  /\ sent \in MessageLists
  /\ stdin = Frames(sent)
  /\ buffer = <<>>
  /\ pendingContentLength = <<>>
  /\ parsed = <<>>

\* process.stdin.on("data", ...) (part_008 507-510): a chunk of any length
\* arrives, decoded as UTF-8 into a string
OnData ==
  /\ \E n \in 1..Len(stdin) :
       LET st == processBuffer([buffer |-> buffer \o SubSeq(stdin, 1, n),
                                pending |-> pendingContentLength,
                                parsed |-> parsed])
       IN /\ stdin' = SliceFrom(stdin, n)
          /\ buffer' = st.buffer
          /\ pendingContentLength' = st.pending
          /\ parsed' = st.parsed
  /\ UNCHANGED sent
  /\ UNCHANGED <<coreVars, htmlVars, serverVars, linkVars, rpcVars>>

StdioNext == OnData

StdioSpec == StdioInit /\ [][StdioNext]_vars


\* ============================================================ the link loop
\* most hrefs of the page whose links are followed
MaxHrefs == 2

\* binaryExtensions (crawl.js 50-69)
BinaryExtensions ==
  {<<".", "z", "i", "p">>, <<".", "7", "z">>, <<".", "r", "a", "r">>,
   <<".", "t", "a", "r">>, <<".", "g", "z">>, <<".", "d", "o", "c">>,
   <<".", "d", "o", "c", "x">>, <<".", "x", "l", "s">>, <<".", "x", "l", "s", "x">>,
   <<".", "p", "p", "t">>, <<".", "p", "p", "t", "x">>, <<".", "m", "p", "4">>,
   <<".", "m", "p", "3">>, <<".", "a", "v", "i">>, <<".", "m", "o", "v">>,
   <<".", "w", "m", "v">>, <<".", "e", "x", "e">>, <<".", "m", "s", "i">>}

\* assetExtensions (crawl.js 75-83)
AssetExtensions ==
  {<<".", "p", "d", "f">>, <<".", "p", "n", "g">>, <<".", "j", "p", "g">>,
   <<".", "j", "p", "e", "g">>, <<".", "g", "i", "f">>, <<".", "w", "e", "b", "p">>,
   <<".", "s", "v", "g">>}

EndsWith(text, suffix) ==
  Len(text) >= Len(suffix) /\ SubSeq(text, Len(text) - Len(suffix) + 1, Len(text)) = suffix

\* a parsed URL: pathname is the list of its segments after the leading "/",
\* the last one empty when the path ends in "/"
Url(protocol, hostname, pathname, search, hash) ==
  [protocol |-> protocol, hostname |-> hostname, pathname |-> pathname,
   search |-> search, hash |-> hash]

\* the last segment carries the end of the pathname
LastSegment(pathname) == IF pathname = <<>> THEN <<>> ELSE pathname[Len(pathname)]

\* isBinaryPath (crawl.js 48-71)
isBinaryPath(pathname) ==
  \E ext \in BinaryExtensions : EndsWith(ToLowerCase(LastSegment(pathname)), ext)

\* isDownloadableAsset (crawl.js 73-85)
isDownloadableAsset(pathname) ==
  \E ext \in AssetExtensions : EndsWith(ToLowerCase(LastSegment(pathname)), ext)

\* isSameDomain (crawl.js 101-103)
isSameDomain(url, rootUrl) == url.hostname = rootUrl.hostname

\* isWithinBasePath (crawl.js 105-107): startsWith on the pathname text; the
\* root path /d/ is the segments d and the empty one
isWithinBasePath(url, rootUrl) ==
  LET base == rootUrl.pathname
      whole == SubSeq(base, 1, Len(base) - 1)
      open == LastSegment(base)
  IN /\ Len(url.pathname) >= Len(base)
     /\ SubSeq(url.pathname, 1, Len(whole)) = whole
     /\ LET next == url.pathname[Len(base)]
        IN Len(next) >= Len(open) /\ SubSeq(next, 1, Len(open)) = open

\* keeping the fragment
normalizeUrlKeepHash(url) == url

\* normalizeUrl (crawl.js 39-47): url.hash = ""
normalizeUrl(url) == [url EXCEPT !.hash = <<>>]

\* an href as written: optional leading space, scheme, //host, path
\* (absolute or relative segments), #fragment
Href(lead, scheme, host, absolute, segments, hash) ==
  [lead |-> lead, scheme |-> scheme, host |-> host, absolute |-> absolute,
   segments |-> segments, hash |-> hash]

\* link.startsWith("#")
StartsWithHash(link) ==
  ~link.lead /\ link.scheme = <<>> /\ link.host = <<>> /\ ~link.absolute
  /\ link.segments = <<>> /\ link.hash # <<>>

\* link.startsWith("mailto:"), link.startsWith("javascript:")
StartsWithScheme(link, scheme) == ~link.lead /\ link.scheme = scheme

Mailto == <<"m", "a", "i", "l", "t", "o">>
Javascript == <<"j", "a", "v", "a", "s", "c", "r", "i", "p", "t">>
Http == <<"h", "t", "t", "p">>

\* the segments of a relative path appended to a directory: ".." leaves it
RECURSIVE Merge(_, _)
Merge(dir, segments) ==
  IF segments = <<>> THEN dir
  ELSE IF Head(segments) = <<".", ".">>
    THEN Merge(IF dir = <<>> THEN dir ELSE SubSeq(dir, 1, Len(dir) - 1), Tail(segments))
  ELSE Merge(Append(dir, Head(segments)), Tail(segments))

\* a path whose last segment was ".." ends in "/"
Resolved(dir, segments) ==
  IF segments # <<>> /\ segments[Len(segments)] = <<".", ".">>
    THEN Append(Merge(dir, segments), <<>>)
    ELSE Merge(dir, segments)

\* new URL(link, current) (crawl.js 388): the parser drops leading spaces,
\* lowers scheme and host, resolves a relative path against the directory
\* of the base and keeps the fragment; mailto: and javascript: URLs have no
\* host
Resolve(link, base) ==
  IF link.scheme # <<>> /\ ToLowerCase(link.scheme) # Http
    THEN Url(ToLowerCase(link.scheme), <<>>, link.segments, <<>>, link.hash)
  ELSE IF link.host # <<>>
    THEN Url(base.protocol, ToLowerCase(link.host[1]), Resolved(<<>>, link.segments),
             <<>>, link.hash)
  ELSE IF link.absolute
    THEN Url(base.protocol, base.hostname, Resolved(<<>>, link.segments), <<>>, link.hash)
  ELSE IF link.segments # <<>>
    THEN Url(base.protocol, base.hostname,
             Resolved(SubSeq(base.pathname, 1, Len(base.pathname) - 1), link.segments),
             <<>>, link.hash)
  ELSE [base EXCEPT !.hash = link.hash]

\* the link loop (crawl.js 381-405) from href i on: what it pushes
RECURSIVE LinkLoop(_, _, _, _, _)
LinkLoop(links, i, base, rootUrl, vis) ==
  IF i > Len(links) THEN <<>>
  ELSE LET link == links[i]
           normalized == normalizeUrl(Resolve(link, base))
           rest == LinkLoop(links, i + 1, base, rootUrl, vis)
       IN IF StartsWithHash(link) THEN rest
          ELSE IF StartsWithScheme(link, Mailto) \/ StartsWithScheme(link, Javascript)
            THEN rest
          ELSE IF ~isSameDomain(normalized, rootUrl) THEN rest
          ELSE IF ~isWithinBasePath(normalized, rootUrl) THEN rest
          ELSE IF isBinaryPath(normalized.pathname)
                  /\ ~isDownloadableAsset(normalized.pathname) THEN rest
          ELSE IF normalized \in vis THEN rest
          ELSE <<normalized>> \o rest

\* DOCS_BASE_URL http://x/d/ and a page of the site
SiteRoot == Url(Http, <<"x">>, <<<<"d">>, <<>>>>, <<>>, <<>>)
SitePage == Url(Http, <<"x">>, <<<<"d">>, <<"s">>, <<"a">>>>, <<>>, <<>>)

ZipName == <<"b", ".", "z", "i", "p">>
\* the hrefs a page can hold
SampleHrefs ==
  {Href(FALSE, <<>>, <<>>, FALSE, <<>>, <<"f">>),
   Href(TRUE, <<>>, <<>>, FALSE, <<>>, <<"f">>),
   Href(FALSE, Mailto, <<>>, FALSE, <<<<"m">>>>, <<>>),
   Href(TRUE, <<"M", "A", "I", "L", "T", "O">>, <<>>, FALSE, <<<<"m">>>>, <<>>),
   Href(FALSE, Javascript, <<>>, FALSE, <<<<"v">>>>, <<>>),
   Href(FALSE, <<>>, <<>>, FALSE, <<<<"c">>>>, <<"f">>),
   Href(FALSE, <<>>, <<>>, FALSE, <<<<".", ".">>, <<"c">>>>, <<>>),
   Href(FALSE, <<>>, <<>>, FALSE, <<<<".", ".">>, <<".", ".">>, <<"e">>>>, <<>>),
   Href(FALSE, <<>>, <<>>, TRUE, <<<<"d">>, ZipName>>, <<>>),
   Href(FALSE, <<>>, <<>>, FALSE, <<<<"B", ".", "Z", "I", "P">>>>, <<"f">>),
   Href(FALSE, <<>>, <<>>, FALSE, <<<<"c", ".", "p", "d", "f">>>>, <<>>),
   Href(FALSE, <<>>, <<>>, TRUE, <<<<"d", "2">>>>, <<>>),
   Href(FALSE, Http, <<<<"X">>>>, TRUE, <<<<"d">>, <<"c">>>>, <<"f">>),
   Href(FALSE, Http, <<<<"y">>>>, TRUE, <<<<"d">>, <<"c">>>>, <<>>)}

HrefLists == UNION {[1..n -> SampleHrefs] : n \in 1..MaxHrefs}

LinkInit ==
  /\ CrawlIdle
  /\ RecordIdle
  /\ StoreIdle
  /\ IndexIdle
  /\ HtmlIdle
  /\ ServerIdle
  /\ StdioIdle
  /\ RpcIdle
  /\ currentUrl \in {<<SiteRoot>>, <<SitePage>>}
  /\ hrefs \in HrefLists
  /\ visitedBefore \in {{currentUrl[1]}, {currentUrl[1], SiteRoot}}
  /\ frontier = <<>>

\* the for loop over the links of the page (crawl.js 381-405)
FollowLinks ==
  /\ frontier = <<>>
  /\ frontier' = <<LinkLoop(hrefs, 1, currentUrl[1], SiteRoot, visitedBefore)>>
  /\ UNCHANGED <<currentUrl, hrefs, visitedBefore>>
  /\ UNCHANGED <<coreVars, htmlVars, serverVars, stdioVars, rpcVars>>

LinkNext == FollowLinks

LinkSpec == LinkInit /\ [][LinkNext]_vars


\* ================================================== the JSON-RPC transports
\* most SSE streams opened, POSTs received and messages read from stdin
MaxStreams == 2
MaxPosts == 2
MaxDispatched == 2

\* the id of a message: absent, null, or a number
UndefinedId == [kind |-> "undefined", val |-> 0]
NullId == [kind |-> "null", val |-> 0]
NumId(n) == [kind |-> "num", val |-> n]

\* `id !== undefined && id !== null`
HasId(id) == id.kind \notin {"undefined", "null"}

Methods == {"initialize", "tools/list", "tools/call", "resources/list"}

Message(id, method, valid) == [id |-> id, method |-> method, valid |-> valid]

\* what handleToolCall can do with a call
ToolOutcomes == {"result", "throws"}

\* the default responder without its test of the id
respondAlways(id, payload) ==
  <<[id |-> id, ok |-> TRUE, code |-> 0]>>

\* respond (part_008 152-158): the lines written to stdout
respond(id, payload) ==
  IF id.kind = "undefined" \/ id.kind = "null" THEN <<>>
  ELSE <<[id |-> id, ok |-> TRUE, code |-> 0]>>

\* respondError (part_008 160-170)
respondError(id, message, code) ==
  IF id.kind = "undefined" \/ id.kind = "null" THEN <<>>
  ELSE <<[id |-> id, ok |-> FALSE, code |-> code]>>

\* handleMessage (part_008 406-445): the calls it makes of the responders it
\* is given, in order; `outcome` is what handleToolCall does if the method is
\* tools/call
handleMessage(message, outcome) ==
  IF message.method = "initialize"
    THEN <<[fn |-> "respond", id |-> message.id, code |-> 0]>>
  ELSE IF message.method = "tools/list"
    THEN <<[fn |-> "respond", id |-> message.id, code |-> 0]>>
  ELSE IF message.method = "tools/call"
    THEN IF outcome = "result"
           THEN <<[fn |-> "respond", id |-> message.id, code |-> 0]>>
           ELSE <<[fn |-> "respondError", id |-> message.id, code |-> 0 - 32000]>>
  ELSE IF HasId(message.id)
    THEN <<[fn |-> "respondError", id |-> message.id, code |-> 0 - 32601]>>
    ELSE <<>>

\* what the calls write to stdout with the default responders
RECURSIVE Stdout(_)
Stdout(calls) ==
  IF calls = <<>> THEN <<>>
  ELSE (IF Head(calls).fn = "respond" THEN respond(Head(calls).id, "result")
        ELSE respondError(Head(calls).id, "message", Head(calls).code))
       \o Stdout(Tail(calls))

\* writeSseEvent(sseRes, "message", ...) of respondFn (http-server.js 266-281)
\* and respondErrorFn (284-313): sseRes is sessions.get(sessionId) now
sseRespond(sseRes, post, call) ==
  IF sseRes # 0 /\ HasId(call.id)
    THEN {[stream |-> sseRes, event |-> "message", post |-> post,
           id |-> call.id, ok |-> call.fn = "respond", code |-> call.code]}
    ELSE {}

\* the body of one iteration of the loop over the batch (http-server.js
\* 324-331): the events its responder calls write
HandleOne(sseRes, post, message, outcome) ==
  LET calls == IF ~message.valid
                 THEN <<[fn |-> "respondError", id |-> message.id, code |-> 0 - 32700]>>
                 ELSE handleMessage(message, outcome)
  IN UNION {sseRespond(sseRes, post, calls[c]) : c \in 1..Len(calls)}

\* bodies a client can POST: nothing, text that is no JSON, one message, a batch
EmptyBody == [kind |-> "empty", messages |-> <<>>]
GarbageBody == [kind |-> "garbage", messages |-> <<>>]
JsonBody(messages) == [kind |-> "json", messages |-> messages]
Request == Message(NumId(1), "tools/call", TRUE)
Notification == Message(UndefinedId, "resources/list", TRUE)
PostBodies ==
  {EmptyBody, GarbageBody, JsonBody(<<Request>>),
   JsonBody(<<Notification, Request>>),
   JsonBody(<<Message(NumId(2), "initialize", FALSE)>>)}

StdinMessages ==
  {Message(id, method, TRUE) : id \in {UndefinedId, NullId, NumId(0)}, method \in Methods}

\* the process runs one transport: startServer reads stdin (part_008 447-528),
\* the HTTP server serves /sse and /messages
HttpUnused == streamCount = 0 /\ posts = <<>>

RpcInit ==
  /\ CrawlIdle
  /\ RecordIdle
  /\ StoreIdle
  /\ IndexIdle
  /\ HtmlIdle
  /\ ServerIdle
  /\ StdioIdle
  /\ LinkIdle
  /\ RpcIdle

\* handleSSEConnection (http-server.js 200-245) for GET /sse?sessionId=s: the
\* reply 409 to a session id in use changes nothing here
SSEConnection ==
  /\ dispatched = <<>>
  /\ streamCount < MaxStreams
  /\ \E s \in SessionIds :
       IF sessions[s] # 0
         THEN UNCHANGED <<sessions, streamCount, sseEvents>>
         ELSE /\ streamCount' = streamCount + 1
              /\ sessions' = [sessions EXCEPT ![s] = streamCount + 1]
              /\ sseEvents' = sseEvents \cup
                                {[stream |-> streamCount + 1, event |-> "endpoint", post |-> 0,
                                  id |-> UndefinedId, ok |-> TRUE, code |-> 0]}
  /\ UNCHANGED <<posts, dispatched>>
  /\ UNCHANGED <<coreVars, htmlVars, serverVars, stdioVars, linkVars>>

\* req.on("close") of an open stream (http-server.js 238-242)
SSEClose ==
  /\ \E s \in SessionIds :
       /\ sessions[s] # 0
       /\ sessions' = [sessions EXCEPT ![s] = 0]
  /\ UNCHANGED <<streamCount, posts, sseEvents, dispatched>>
  /\ UNCHANGED <<coreVars, htmlVars, serverVars, stdioVars, linkVars>>

\* handleSSEMessage up to `await readBody(req)` (http-server.js 247-256)
MessagePosted ==
  /\ dispatched = <<>>
  /\ Len(posts) < MaxPosts
  /\ \E s \in SessionIds :
       posts' = Append(posts,
                  IF sessions[s] = 0
                    THEN [session |-> s, accepted |-> 0, status |-> 404, todo |-> <<>>,
                          read |-> FALSE]
                    ELSE [session |-> s, accepted |-> sessions[s], status |-> 0,
                          todo |-> <<>>, read |-> FALSE])
  /\ UNCHANGED <<sessions, streamCount, sseEvents, dispatched>>
  /\ UNCHANGED <<coreVars, htmlVars, serverVars, stdioVars, linkVars>>

\* the body was read (http-server.js 256-263, 316, 337-341): JSON.parse, the
\* replies 400 and 500, the list of messages
BodyRead ==
  /\ \E p \in 1..Len(posts), content \in PostBodies :
       /\ posts[p].status = 0
       /\ ~posts[p].read
       /\ posts' = [posts EXCEPT ![p] =
            IF content.kind = "garbage" THEN [@ EXCEPT !.status = 500, !.read = TRUE]
            ELSE IF content.kind = "empty" THEN [@ EXCEPT !.status = 400, !.read = TRUE]
            ELSE [@ EXCEPT !.todo = content.messages, !.read = TRUE]]
  /\ UNCHANGED <<sessions, streamCount, sseEvents, dispatched>>
  /\ UNCHANGED <<coreVars, htmlVars, serverVars, stdioVars, linkVars>>

\* one iteration of the loop over the messages, up to its await, and after the
\* last one the reply 202 (http-server.js 324-336)
MessageHandled ==
  /\ \E p \in 1..Len(posts), outcome \in ToolOutcomes :
       /\ posts[p].status = 0
       /\ posts[p].read
       /\ posts[p].todo # <<>>
       /\ sseEvents' = sseEvents \cup
            HandleOne(sessions[posts[p].session], p, Head(posts[p].todo), outcome)
       /\ posts' = [posts EXCEPT ![p] =
            [@ EXCEPT !.todo = Tail(posts[p].todo),
                      !.status = IF Len(posts[p].todo) = 1 THEN 202 ELSE 0]]
  /\ UNCHANGED <<sessions, streamCount, dispatched>>
  /\ UNCHANGED <<coreVars, htmlVars, serverVars, stdioVars, linkVars>>

\* handleMessage(message) of processBuffer (part_008 470-471, 501-502), with
\* the default responders
StdinMessage ==
  /\ HttpUnused
  /\ Len(dispatched) < MaxDispatched
  /\ \E message \in StdinMessages, outcome \in ToolOutcomes :
       dispatched' = Append(dispatched,
                       [message |-> message,
                        outcome |-> IF message.method = "tools/call" THEN outcome ELSE "none",
                        stdout |-> Stdout(handleMessage(message, outcome))])
  /\ UNCHANGED <<sessions, streamCount, posts, sseEvents>>
  /\ UNCHANGED <<coreVars, htmlVars, serverVars, stdioVars, linkVars>>

RpcNext ==
  \/ SSEConnection
  \/ SSEClose
  \/ MessagePosted
  \/ BodyRead
  \/ MessageHandled
  \/ StdinMessage

RpcSpec == RpcInit /\ [][RpcNext]_vars


\* ------------------------------------------------------------- properties
\* the iteration in `last` processed a URL (it was not a duplicate pop)
Processed == last.outcome \notin {"none", "duplicate"}

LastEntry == last.entry

\* C1: with a finite session budget N, fetchedCount <= N after every loop
\* iteration and in the result, for every site, cache, mode and reply
SessionBudgetLaw == sessionLimit > 0 => fetchedCount <= sessionLimit

\* the session budget ended a run that still had URLs in the frontier
SessionBudgetStoppedRun ==
  pc = "done" /\ sessionLimit > 0 /\ fetchedCount = sessionLimit /\ queue # <<>>

\* C2: with a finite total budget M, reusedCount + fetchedCount never
\* exceeds M, with assets among the fetched URLs and in both persistence
\* modes
TotalBudgetLaw == totalLimit > 0 => reusedCount + fetchedCount <= totalLimit

\* C3: an iteration that ends in reuse adds one to reusedCount and leaves
\* fetchedCount as it was (so a run can return more than N pages)
ReuseKeepsFetchedCount ==
  [][(visited' # visited /\ last'.outcome = "reused")
       => (reusedCount' = reusedCount + 1 /\ fetchedCount' = fetchedCount)]_vars

\* a run with session budget 1 returned two pages, one of them reused
MorePagesThanSessionBudget ==
  /\ pc = "done"
  /\ sessionLimit = 1
  /\ reusedCount = 1
  /\ fetchedCount = 1
  /\ pagesLen = 2

\* C4: a cached page with links whose conditional fetch answers 304 is
\* reused with exactly one network call
NotModifiedWithLinksIsReused ==
  (/\ Processed
   /\ LastEntry.hasLinks
   /\ Len(last.calls) >= 1
   /\ last.calls[1].cond
   /\ last.calls[1].reply = "notModified")
  => (Len(last.calls) = 1 /\ last.outcome = "reused")

\* C5: a cached page without links whose first fetch answers 304 gets
\* exactly one more fetch, without conditional headers; fresh HTML from it
\* is counted as fetched
NotModifiedWithoutLinksRefetchesOnce ==
  (/\ Processed
   /\ LastEntry.cached
   /\ ~LastEntry.hasLinks
   /\ Len(last.calls) >= 1
   /\ last.calls[1].reply = "notModified")
  => (/\ Len(last.calls) = 2
      /\ ~last.calls[2].cond
      /\ (last.calls[2].reply = "html" => last.outcome = "fetched"))

\* C6: with forceFetch every visited URL is fetched at least once and no
\* fetch carries conditional headers, whatever onlyNew and the cache say
ForceFetchesUnconditionally ==
  (forceFetch /\ Processed)
  => (/\ Len(last.calls) >= 1
      /\ \A k \in 1..Len(last.calls) : ~last.calls[k].cond)

\* forceFetch and onlyNew together fetched a page that is cached with
\* validators and links
ForcedFetchOfCachedPage ==
  /\ forceFetch
  /\ onlyNew
  /\ LastEntry.hasLinks
  /\ LastEntry.validators
  /\ last.outcome = "fetched"

\* C7: with onlyNew and without forceFetch a cached page with links causes
\* no network call and is reused
OnlyNewReusesWithoutFetch ==
  (~forceFetch /\ onlyNew /\ Processed /\ LastEntry.hasLinks)
  => (last.calls = <<>> /\ last.outcome = "reused")

\* C8: a failed fetch is logged and the URL skipped; runCrawl does not
\* reject
FetchFailureIsSkipped ==
  (\E k \in 1..Len(last.calls) : last.calls[k].reply = "fail")
  => (pc # "rejected" /\ last.outcome = "skipped")

\* C9: after runCrawl the index and the summary collection cover every page
\* on disk, and index.pageCount is the number of pages on disk
IndexCoversCorpus ==
  pc = "done"
  => (/\ indexUrls = disk
      /\ summaryUrls = disk
      /\ indexPageCount = Cardinality(disk))

\* C10: on an empty cache, without budgets and with only 200 HTML replies,
\* every reachable URL is fetched exactly once: fetchedCount = pages.length
\* = number of reachable URLs and reusedCount = 0
FreshCrawlFetchesReachable ==
  (/\ pc = "done"
   /\ existingUrls = {}
   /\ sessionLimit = 0
   /\ totalLimit = 0
   /\ allHtml)
  => (/\ visited = discovered
      /\ fetchedCount = Cardinality(discovered)
      /\ pagesLen = Cardinality(discovered)
      /\ reusedCount = 0)

\* C11: when every reachable page is cached and no fetch brings fresh
\* content or fails, a run with a session budget N >= 1 and no total budget
\* visits and reuses every reachable URL before the loop stops
CachedTreeIsWalked ==
  (/\ pc = "done"
   /\ sessionLimit > 0
   /\ totalLimit = 0
   /\ discovered \subseteq existingUrls
   /\ fetchedCount = 0
   /\ skippedCount = 0)
  => (/\ visited = discovered
      /\ reusedCount = Cardinality(discovered))

\* the fields of a record that a reuse is not to touch
KeptFields(page) ==
  <<page.slug, page.url, page.title, page.breadcrumbs, page.text, page.links,
    page.updatedAt>>

\* C12: the record written by a reuse holds the same slug, url, title,
\* breadcrumbs, text, links and updatedAt as the record the reuse started
\* from, also after several reuses in a row
ReuseKeepsRecord ==
  previous # <<>>
  => KeptFields(parseMarkdownPage(stored[1], RecordPath(saved[1])))
       = KeptFields(parseMarkdownPage(previous[1], RecordPath(saved[1])))

\* C13: loading the record written by savePageMarkdown(page) gives back the
\* slug, url, title, breadcrumbs and text of the page
SaveLoadRoundTrip ==
  loaded # <<>>
  => (/\ loaded[1].slug = saved[1].slug
      /\ loaded[1].url = saved[1].url
      /\ loaded[1].title = saved[1].title
      /\ loaded[1].breadcrumbs = saved[1].breadcrumbs
      /\ loaded[1].text = saved[1].text)

\* C14: a reader of a page file gets a complete record, the previous one or
\* the new one, at every instant and after a crash in the middle of a save
ReadersSeeWholeRecords == observed # <<>> => observed[1].header

HexDigits == {"0", "1", "2", "3", "4", "5", "6", "7", "8", "9", "a", "b", "c", "d", "e", "f"}

\* '<prefix>-<10 hex digits>' with a prefix of 1 to 240 bytes
IsHashedName(base) ==
  /\ Len(base) >= 12
  /\ base[Len(base) - 10] = "-"
  /\ \A i \in (Len(base) - 9)..Len(base) : base[i] \in HexDigits
  /\ ByteLength(SubSeq(base, 1, Len(base) - 11)) <= MAX_MARKDOWN_FILENAME_PREFIX_BYTES

LastSave == written[1]

\* the save wrote to the index of a category directory instead of the path
\* computed from slug and breadcrumbs
Redirected(save) == save.path # save.computed

\* the file lies in the breadcrumb directory of the page or in the pages root
InBreadcrumbDirOrRoot(save) ==
  save.path.dir \in {BreadcrumbParts(save.page.breadcrumbs), <<>>}

StatedPath(page) ==
  LET crumbs == page.breadcrumbs
      name == toSlugSegment(SlugString(page.slug))
  IN FilePath(crumbs,
              IF crumbs # <<>> /\ toSlugSegment(crumbs[Len(crumbs)]) = name
                THEN IndexName ELSE name)

\* C20: a page whose path is under the ceiling is written at the stated
\* path, and loading the corpus yields the page with its breadcrumbs
WrittenAtStatedPath ==
  (written # <<>> /\ ~LastSave.tooLong)
  => (/\ LastSave.path = StatedPath(LastSave.page)
      /\ \E page \in loadPagesFromMarkdown(pagesDir) :
           /\ page.slug = LastSave.page.slug
           /\ page.breadcrumbs = LastSave.page.breadcrumbs)

\* C15: after a completed run pages.json holds one summary record per line
\* and nothing else, in memory mode and in the default streaming mode
SummariesLineDelimited ==
  pc = "done" /\ discovered # {}
  => /\ Len(PagesJson) = Cardinality(summaryUrls)
     /\ \A i \in 1..Len(PagesJson) : PagesJson[i].kind = "summary"

LastSearch == result[1]

\* the distinct terms of the query of the latest search
QueryTerms == {LastSearch.tokens[k] : k \in 1..Len(LastSearch.tokens)}

\* the index has a posting of the term for the page
HasPosting(term, id) == term \in DOMAIN index.terms /\ id \in DOMAIN index.terms[term]

\* the pages for which some query term has a posting
StatedCandidates == {id \in 0..MaxPages : \E term \in QueryTerms : HasPosting(term, id)}

\* the sum of the counts of the terms of a set that have a posting for the page
RECURSIVE SumOfCounts(_, _)
SumOfCounts(termSet, id) ==
  IF termSet = {} THEN 0
  ELSE LET term == CHOOSE t \in termSet : TRUE
       IN (IF HasPosting(term, id) THEN index.terms[term][id] ELSE 0)
          + SumOfCounts(termSet \ {term}, id)

Returned == {LastSearch.results[k].pageId : k \in 1..Len(LastSearch.results)}

\* C16: the pages a search scores are those for which a query term has a
\* posting, and the score of a page is the sum of the counts of the
\* distinct query terms that have a posting for it
ScoreIsSumOfCounts ==
  (result # <<>> /\ LastSearch.limit >= MaxPages)
  => /\ Returned = StatedCandidates
     /\ \A k \in 1..Len(LastSearch.results) :
          LastSearch.results[k].score = SumOfCounts(QueryTerms, LastSearch.results[k].pageId)

\* the candidates of the latest search with the scores searchIndex gave them
Candidates == ScoreEntries(Additions(index.terms, objectOwn, LastSearch.tokens))

\* C17: search returns min(limit, number of candidates) results, by falling
\* score, and no candidate left out scores more than a returned one
RankedAndTruncated ==
  (result # <<>> /\ LastSearch.limit >= 0)
  => LET results == LastSearch.results
     IN /\ Len(results) = (IF LastSearch.limit < Len(Candidates)
                             THEN LastSearch.limit ELSE Len(Candidates))
        /\ \A k \in 1..(Len(results) - 1) : results[k].score >= results[k + 1].score
        /\ \A k \in 1..Len(results) : \E c \in 1..Len(Candidates) : Candidates[c] = results[k]
        /\ \A c \in 1..Len(Candidates) :
             Candidates[c].pageId \notin Returned
             => \A k \in 1..Len(results) : Candidates[c].score <= results[k].score

\* a search with limit 1 returned the second page of the list, which
\* scores more than the first
BestOfTwoReturned ==
  /\ result # <<>>
  /\ LastSearch.limit = 1
  /\ Len(Candidates) = 2
  /\ Candidates[1].score < Candidates[2].score
  /\ LastSearch.results = <<Candidates[2]>>

\* every term of the sample pages
SampleTerms ==
  UNION {{PageTokens(page)[j] : j \in 1..Len(PageTokens(page))} : page \in SamplePages}

\* C18: pageCount is the length of the list, and terms[t][i] is the number
\* of occurrences of t among the tokens of page i, present only when that
\* number is at least 1
IndexCountsTokens ==
  /\ index.pageCount = Len(corpus)
  /\ \A term \in SampleTerms, id \in 0..MaxPages :
       LET n == IF id \in Ordinals(corpus) THEN Count(term, PageTokens(corpus[id + 1])) ELSE 0
           postings == Postings(index.terms, objectOwn, term)
           present == postings # <<>> /\ id \in DOMAIN postings[1]
       IN /\ n >= 1 => (present /\ postings[1][id] = n)
          /\ n = 0 => ~present

\* the title C21 states for a document
StatedTitle(html) ==
  LET titleMatch == FirstMatch(html, "title")
      headingMatch == FirstMatch(html, "h1")
  IN IF titleMatch # <<>> /\ Trim(titleMatch[1]) # <<>> THEN Trim(titleMatch[1])
     ELSE IF headingMatch # <<>> THEN Trim(headingMatch[1])
     ELSE <<>>

\* C21: extractTitle gives the text of the first <title> when it is not
\* empty, else the text of the first <h1>, else the empty string
TitleFallsBackToHeading ==
  extracted # <<>> => extracted[1].title = StatedTitle(document)

\* C22: with an allow-list, every code block kept for a fetched page has a
\* normalized language of the list
CodeBlocksAllowed ==
  (extracted # <<>> /\ allowedLanguages # <<>>)
  => \A k \in 1..Len(extracted[1].codeBlocks) :
       extracted[1].codeBlocks[k].language \in allowedLanguages[1]

\* the latest tool call was a get_page whose data loaded
LookedUp ==
  /\ response # <<>>
  /\ response[1].tool = "get_page"
  /\ ~response[1].loadFailed
  /\ ~response[1].lookupThrew

\* C23: a get_page call invokes fetch-and-cache exactly once when its lookup
\* resolves to no cached page and fetch-on-miss is enabled, and never when
\* the lookup resolves to a cached page
FetchOnceOnMissOnly ==
  LookedUp =>
    /\ (response[1].miss /\ response[1].allowFetch) => response[1].fetches = 1
    /\ ~response[1].miss => response[1].fetches = 0

\* a second get_page for a page fetched on a miss is served from the cache
SecondCallServedFromCache ==
  /\ LookedUp
  /\ response[1].lookup = <<"b">>
  /\ response[1].allowFetch
  /\ ~response[1].miss
  /\ response[1].fetches = 0
  /\ fetchCalls = 1

PageNotFound == <<"P", "a", "g", "e", " ", "n", "o", "t", " ", "f", "o", "u", "n", "d">>

\* the characters of a message
MessageChars(message) ==
  CASE message = "Page not found for slug" ->
         PageNotFound \o <<" ", "f", "o", "r", " ", "s", "l", "u", "g">>
    [] message = "Page not found and fetch failed for slug" ->
         PageNotFound \o <<" ", "a", "n", "d", " ", "f", "e", "t", "c", "h">>
    [] OTHER -> <<>>

StartsWithPageNotFound(text) ==
  /\ text # <<>>
  /\ Len(MessageChars(text[1])) >= Len(PageNotFound)
  /\ SubSeq(MessageChars(text[1]), 1, Len(PageNotFound)) = PageNotFound

\* C24: a get_page whose lookup resolves to no cached page, with fetch-on-miss
\* disabled or a failing fetch, returns an error result that starts with
\* 'Page not found', does not throw, and leaves the caches as they were
MissReturnsPageNotFound ==
  (LookedUp /\ response[1].miss /\ (~response[1].allowFetch \/ response[1].fetchFailed)) =>
    /\ response[1].isError
    /\ StartsWithPageNotFound(response[1].text)
    /\ ~response[1].threw
    /\ caches = response[1].cachesAtLookup

\* a fetch on a miss wrote the page file and then failed
FailedFetchAfterWrite ==
  /\ LookedUp
  /\ response[1].miss
  /\ response[1].fetchFailed
  /\ response[1].cachesAtLookup.pages # <<>>
  /\ diskPages # response[1].cachesAtLookup.pages[1]

\* C25: when pages.json or index.json cannot be loaded, loadData fails with
\* code DATA_MISSING and a message naming the expected files and the
\* remediation command, and the caches stay unset; a call that loads has set
\* them
FailedLoadLeavesCachesUnset ==
  response # <<>> =>
    IF response[1].loadFailed
      THEN /\ response[1].threw
           /\ response[1].code = "DATA_MISSING"
           /\ \E i \in 1..Len(response[1].text) :
                response[1].text[i] = "Expected files: pages.json and index.json"
           /\ \E i \in 1..Len(response[1].text) : response[1].text[i] = "Run: npm run crawl"
           /\ caches = NoCaches
      ELSE caches.pages # <<>> /\ caches.index # <<>>

\* a call failed while pages.json was readable and index.json was not
FailedLoadWithReadablePages ==
  /\ response # <<>>
  /\ response[1].loadFailed
  /\ dataFiles.pages = "valid"
  /\ dataFiles.index # "valid"

\* C26: with Content-Length framing the server takes exactly the N bytes after
\* a header as the JSON body and parses the next message from the following
\* byte, also when a body holds multi-byte characters: every body taken after
\* a header has the N bytes of that header and is a body the client framed
FramedBodiesParsed ==
  \A i \in 1..Len(parsed) :
    parsed[i].via = "frame" =>
      /\ ByteLength(parsed[i].text) = parsed[i].pending[1]
      /\ \E k \in 1..Len(sent) : parsed[i].text = sent[k]

\* an href that names only a fragment, a mailto: or a javascript: URL,
\* whatever its case and leading space
NoPageHref(link) ==
  \/ (link.scheme = <<>> /\ link.host = <<>> /\ ~link.absolute
      /\ link.segments = <<>> /\ link.hash # <<>>)
  \/ ToLowerCase(link.scheme) \in {Mailto, Javascript}

\* C27: every URL the link loop puts in the frontier has no fragment, the
\* hostname of the root, a path that starts with the root path and does not
\* end in a rejected binary extension; a page whose links are all
\* fragment-only, mailto: or javascript: links adds nothing
FrontierInScope ==
  frontier # <<>> =>
    /\ \A k \in 1..Len(frontier[1]) :
         LET url == frontier[1][k]
         IN /\ url.hash = <<>>
            /\ url.hostname = SiteRoot.hostname
            /\ url.pathname[1] = <<"d">> /\ Len(url.pathname) >= 2
            /\ \A ext \in BinaryExtensions :
                 ~EndsWith(ToLowerCase(LastSegment(url.pathname)), ext)
    /\ (\A i \in 1..Len(hrefs) : NoPageHref(hrefs[i])) => frontier[1] = <<>>

\* a link with a fragment was pushed next to a rejected archive
FragmentStrippedArchiveDropped ==
  /\ frontier # <<>>
  /\ Len(hrefs) = 2
  /\ hrefs[1].hash # <<>>
  /\ isBinaryPath(Resolve(hrefs[2], currentUrl[1]).pathname)
  /\ Len(frontier[1]) = 1
  /\ frontier[1][1] = normalizeUrl(Resolve(hrefs[1], currentUrl[1]))

\* C28: after a page save has ensured the category directory of label Aa
\* over loose files that match it, no .md file of the parent directory
\* matches the label by normalized name or by front-matter slug or title,
\* and the index.md of the directory exists
LooseFilesAbsorbed ==
  (written # <<>> /\ written[1].page.breadcrumbs = <<PlainLabel>>) =>
    /\ \A fp \in FilesIn(pagesDir, <<>>) : ~MatchesLabel(pagesDir, fp, PlainLabel)
    /\ Exists(pagesDir, FilePath(<<PlainLabel>>, IndexName))

\* C29: for every site, cache, mode and budget the crawl loop ends, given
\* that every fetch returns or fails: the frontier runs empty, a budget
\* closes the loop, or an exception leaves it
CrawlLoopEnds == <>(pc # "loop")

\* the run ended after the loop had popped a URL enqueued a second time
EndedAfterDuplicate ==
  /\ pc = "done"
  /\ queue = <<>>
  /\ last.outcome = "duplicate"

\* C30: after every iteration each visited URL has one recorded outcome:
\* |visited| = reusedCount + fetchedCount + the number of skips logged
VisitedAllAccounted ==
  pc # "rejected" => Cardinality(visited) = reusedCount + fetchedCount + skippedCount

\* C31: runCrawl resolves for every sequence of replies and every set of
\* hrefs: no iteration leaves the loop through an exception
RunNeverRejects == pc # "rejected"

\* C32: until a run completes, the summary collection and the index of the
\* previous completed run are on disk unchanged, also when the run rejects
\* or the process stops in the middle
PreviousCorpusKept ==
  pc # "done" => (summaryUrls = existingUrls /\ indexUrls = existingUrls)

\* the complete records under the pages root
Records(tree) == {tree.files[fp] : fp \in {q \in DOMAIN tree.files : tree.files[q].header}}

\* C33: a step of savePageMarkdown keeps the record of every page whose slug
\* is not the slug of the page being saved
OtherRecordsKept ==
  [][pagesDir' # pagesDir =>
       LET page == IF writing' # <<>> THEN writing'[1].page ELSE written'[1].page
       IN \A record \in Records(pagesDir) :
            record.slug # serializeYaml(page.slug) => record \in Records(pagesDir')]_vars

\* loadPageMarkdownByMetadata (storage.js 678-690) on the slug and the
\* breadcrumbs of a page: <<the file read>>, or <<>> for null
loadPageMarkdownByMetadata(tree, page) ==
  LET filePath == slugToMarkdownPath(SlugString(page.slug), page.breadcrumbs, tree.dirs)
  IN IF ~Truthy(page.slug) \/ ~Exists(tree, filePath) THEN <<>>
     ELSE <<tree.files[filePath]>>

\* C34: after savePageMarkdown(page) has written the record,
\* loadPageMarkdownByMetadata with the slug and breadcrumbs of the page reads
\* the file that was written
LookupFindsSavedRecord ==
  [][(writing # <<>> /\ written' = writing /\ pagesDir' # pagesDir) =>
       loadPageMarkdownByMetadata(pagesDir', written'[1].page)
         = <<serializePageMarkdown(written'[1].page)>>]_vars

\* C35: the path slugToMarkdownPath returns for a save is never longer than
\* MAX_MARKDOWN_PATH_CHARS
SavePathWithinCeiling ==
  writing # <<>> => PathLength(writing[1].computed) <= MAX_MARKDOWN_PATH_CHARS

\* C36: a response to a message posted with a session id is written only to
\* the stream that was registered under that id when the POST was accepted
ResponseOnAcceptedStream ==
  \A e \in sseEvents :
    e.event = "message" => e.stream = posts[e.post].accepted

\* C38: handleMessage with the default responders writes exactly one response
\* for a message with an id and none for a message without
OneResponsePerId ==
  \A d \in 1..Len(dispatched) :
    /\ Len(dispatched[d].stdout) = (IF HasId(dispatched[d].message.id) THEN 1 ELSE 0)
    /\ \A r \in 1..Len(dispatched[d].stdout) :
         dispatched[d].stdout[r].id = dispatched[d].message.id

\* a tools/call that threw was answered, a notification of an unsupported
\* method was not
ThrownCallAnswered ==
  /\ Len(dispatched) = 2
  /\ dispatched[1].message.method = "tools/call"
  /\ dispatched[1].outcome = "throws"
  /\ HasId(dispatched[1].message.id)
  /\ dispatched[1].stdout # <<>>
  /\ dispatched[2].message.method = "resources/list"
  /\ dispatched[2].message.id = NullId
  /\ dispatched[2].stdout = <<>>

\* what the reader gives to JSON.parse if the whole input arrives as one chunk
ParsedInOneChunk ==
  processBuffer([buffer |-> Frames(sent), pending |-> <<>>, parsed |-> <<>>]).parsed

\* C37: once the whole input has arrived, what the stdio reader dispatched is
\* what it dispatches for the same input in one chunk, however it was split
DispatchIgnoresChunking == stdin = <<>> => parsed = ParsedInOneChunk

\* C39: in every search result totalMatches is the number of entries of
\* results, and so it never exceeds limit
TotalMatchesIsResultCount ==
  result # <<>>
  => /\ LastSearch.totalMatches = Len(LastSearch.results)
     /\ LastSearch.totalMatches <= LastSearch.limit


====
